---- MODULE Spec2Model ----
(***************************************************************************)
(* The write path of the cd-service repository                             *)
(* (services/cd-service/pkg/repository): the write queue, the writer loop  *)
(* ProcessQueue / ProcessQueueOnce / drainQueue / applyElements,           *)
(* ApplyTransformers, FetchAndReset, Push and the Argo CD webhook          *)
(* dispatcher, together with the callers blocked in Apply and a remote     *)
(* that other writers may advance.                                         *)
(***************************************************************************)
EXTENDS Naturals, Sequences, FiniteSets, TLC

(* ----------------------------- bounds ---------------------------------- *)

\* number of elements (Apply calls) there are
MaxElems == 3
\* number of Apply calls made while the writer runs (Spec); SpecBatch
\* starts with all MaxElems elements waiting in the queue
MaxCalls == 2
\* number of commits other writers add to the remote branch (Spec,
\* SpecLive), and while the writer works on a waiting batch (SpecBatch)
MaxExt == 1
MaxExtBatch == 2

Elems == 1..MaxElems

(* ------------------------ program constants ---------------------------- *)

\* const maxArgoRequests = 3
maxArgoRequests == 3
\* backoff.WithMaxRetries(eb, 6) in defaultBackOffProvider
MaxRetries == 6
\* the result channel of an element holds one value (queue.add)
ResultCap == 1
\* type StorageBackend int
DefaultBackend == 0
GitBackend == 1
SqliteBackend == 2

(* --------------------------- transformers ------------------------------ *)

\* The marker the commits of other writers put into the tree (for instance
\* a corrected config.json or a new release).
X == <<0, 0>>

\* The transformer lists an Apply call is made with.  Kinds:
\*   ok    stages a write, reports a changed (app, env) pair
\*   fail  returns an error
\*   needX returns an error unless the tree holds X
\*   noX   returns an error if the tree holds X; else stages a write and
\*         reports a deleted root app
\*   json  returns the invalid-JSON error unless the tree holds X
TransformerLists ==
    { <<"ok", "ok">>, <<"ok", "fail">>, <<"ok", "needX">>,
      <<"ok", "noX">>, <<"ok", "json">> }

\* type TransformerResult struct { ChangedApps, DeletedRootApps, Commits }
NoCommits == <<>>
EmptyResult == [apps |-> <<>>, roots |-> <<>>, commits |-> NoCommits]

\* One Transformer.Transform(ctx, state) of transformer k of element e on
\* the staged tree: the error, the tree afterwards and the change-set.
Transform(kind, e, k, tree) ==
    LET good == [err |-> "nil", tree |-> tree \cup {<<e, k>>},
                 apps |-> << <<e, k>> >>, roots |-> <<>>]
        bad(x) == [err |-> x, tree |-> tree, apps |-> <<>>, roots |-> <<>>]
    IN  CASE kind = "ok"    -> good
          [] kind = "fail"  -> bad("applyErr")
          [] kind = "needX" -> IF X \in tree THEN good ELSE bad("applyErr")
          [] kind = "noX"   -> IF X \in tree THEN bad("applyErr")
                               ELSE [good EXCEPT !.apps = <<>>, !.roots = <<e>>]
          [] kind = "json"  -> IF X \in tree THEN good ELSE bad("invalidJson")

\* func (r *TransformerResult) Combine(other *TransformerResult); other = a
\* record; Nil stands for a nil pointer, Ptr(x) for a pointer to x
Nil == <<>>
Ptr(x) == <<x>>

Combine(r, other) ==
    IF other = Nil THEN r
    ELSE [apps    |-> r.apps \o other[1].apps,
          roots   |-> r.roots \o other[1].roots,
          commits |-> IF r.commits = NoCommits THEN other[1].commits
                      ELSE r.commits]

RECURSIVE CombineArray(_)
CombineArray(others) ==
    IF others = <<>> THEN EmptyResult
    ELSE LET n == Len(others)
         IN  Combine(CombineArray(SubSeq(others, 1, n - 1)), Ptr(others[n]))

\* ApplyTransformersInternal: the transformers of e in order, from
\* transformer k on, against the staged tree; stops at the first error.
RECURSIVE ApplyFrom(_, _, _, _, _, _)
ApplyFrom(list, e, k, tree, msgs, changes) ==
    IF k > Len(list)
    THEN [err |-> "nil", tree |-> tree, msgs |-> msgs, changes |-> changes]
    ELSE LET t == Transform(list[k], e, k, tree)
         IN  IF t.err # "nil"
             THEN [err |-> t.err, tree |-> tree, msgs |-> <<>>, changes |-> <<>>]
             ELSE ApplyFrom(list, e, k + 1, t.tree, Append(msgs, k),
                            Append(changes, [apps |-> t.apps, roots |-> t.roots,
                                             commits |-> NoCommits]))

ApplyTransformersInternal(list, e, tree) ==
    ApplyFrom(list, e, 1, tree, <<>>, <<>>)

(* ------------------------------ state ---------------------------------- *)

VARIABLES
    \* r.queue.elements: the elements waiting, oldest first; closed by the
    \* writer when it shuts down
    queue, closed,
    \* the context handed to ProcessQueue is done
    wctx,
    \* per element: its transformers (<<>> until admitted), whether its
    \* context is done, the values buffered in its result channel, and the
    \* caller blocked in Apply ("none", "waiting" or the value returned)
    ts, ectx, chan, caller,
    \* the git objects: commits[c] = [parent, elem, tree, msg, author,
    \* committer]; a commit id
    \* is <<"l", n>> for the n-th commit made here and <<"x", n>> for a
    \* commit of another writer (elem = 0); NoCommit stands for no commit
    commits,
    \* refs/heads/<branch>, refs/remotes/origin/<branch> of the local
    \* repository and refs/heads/<branch> of the remote
    localHead, origin, remoteHead,
    \* r.config.ArgoWebhookUrl != ""
    argoUrl,
    \* the writer goroutine: its position and the locals of
    \* ProcessQueueOnce / applyElements / Push / sendWebhookToArgoCd
    w,
    \* what has been observed so far: every value sent on each result
    \* channel, the elements ApplyTransformers was called for, the elements
    \* found done at pickup, the latest commit made for each element
    sent, ran, pickedDone, commitOf,
    \* what happened in the current (or, when idle, the last) iteration
    it,
    \* a State: the content of its Filesystem, and the last call of one of
    \* its accessors with what it returned
    fs, call,
    \* r.writesDone; per Apply call the position of its deferred function
    \* with the value of r.writesDone it has read; r.config (StorageBackend,
    \* GcFrequency)
    writesDone, deferred, config,
    \* per element: the user its context carries (Nil: none)
    users,
    \* the frontend-service: GrpcProxy.ProcessBatch's request (its Actions)
    \* and what became of it; the configuration c, how far runServer is,
    \* a request to the Auth handler and what the handler did with it
    proxyIn, proxyOut, frontendConfig, server, httpIn, httpOut,
    \* the HealthServer: h.parts, every report made for each part in the
    \* order they took h.mx, the requests to ServeHTTP and the last call of
    \* IsReady
    parts, reported, healthReq, isReady

vars == <<queue, closed, wctx, ts, ectx, chan, caller, commits, localHead,
          origin, remoteHead, argoUrl, w, sent, ran, pickedDone, commitOf, it,
          fs, call, writesDone, deferred, config, users, proxyIn, proxyOut,
          frontendConfig, server, httpIn, httpOut, parts, reported,
          healthReq, isReady>>

writerVars == <<queue, closed, wctx, ts, ectx, chan, caller, commits,
                localHead, origin, remoteHead, argoUrl, w, sent, ran,
                pickedDone, commitOf, it, writesDone, deferred, config,
                users, proxyIn, proxyOut, frontendConfig, server, httpIn,
                httpOut, parts, reported, healthReq, isReady>>
viewVars   == <<fs, call>>
applyVars  == <<writesDone, deferred, config>>
callerVars == <<ts, ectx, caller, users>>
gitVars    == <<commits, localHead, origin, remoteHead, commitOf>>
proxyVars  == <<proxyIn, proxyOut>>
authVars   == <<frontendConfig, server, httpIn, httpOut>>
healthVars == <<parts, reported, healthReq, isReady>>
serverVars == <<proxyVars, authVars, healthVars>>

Admitted == {e \in Elems : ts[e] # <<>>}

NoCommit == <<>>

\* a State that is not empty when the branch does not exist
TreeOf_NotEmpty(c) == IF c = NoCommit THEN {X} ELSE commits[c].tree

\* StateAt: the tree a State is opened at; the empty tree when the branch
\* does not exist yet
TreeOf(c) == IF c = NoCommit THEN {} ELSE commits[c].tree

RECURSIVE Ancestors(_)
Ancestors(c) ==
    IF c = NoCommit THEN {} ELSE {c} \cup Ancestors(commits[c].parent)

LocalCommits == {c \in DOMAIN commits : c[1] = "l"}
ExtCommits   == {c \in DOMAIN commits : c[1] = "x" /\ c[2] > 0}

\* the locals of ProcessQueueOnce before an element is received
IdleWriter ==
    [pc |-> "idle", elements |-> <<>>, idx |-> 0, allow |-> FALSE, pass |-> 0,
     achanges |-> EmptyResult, changes |-> Nil, err |-> "panicError",
     pushSuccess |-> TRUE, tries |-> 0, pending |-> <<>>, hookTry |-> 0,
     resp |-> "none"]


NewIteration ==
    [batch |-> <<>>, pushMoved |-> FALSE, resets |-> 0, pushCalls |-> 0,
     hookCalls |-> 0, hookSuccess |-> FALSE,
     notified |-> 0, payload |-> Nil,
     fetched |-> NoCommit, survived |-> <<>>, lastPush |-> "none",
     action |-> "none"]

\* the deferred function of an Apply call has not started
NoDefer == [pc |-> "none", read |-> 0]

\* New: the RepositoryConfig with its defaults filled in
New(cfg) ==
    IF cfg.StorageBackend = DefaultBackend
    THEN [cfg EXCEPT !.StorageBackend = SqliteBackend]
    ELSE cfg

\* the zero RepositoryConfig, as far as garbage collection goes
NoGcConfig == [StorageBackend |-> DefaultBackend, GcFrequency |-> 0]

\* no State has been opened, no accessor called
NoFs == <<>>
NoCall == [op |-> "none"]

\* GrpcProxy has been called with no request yet
NoBatch == [pc |-> "none", forwarded |-> Nil, err |-> "nil"]

\* the frontend-service has not read its configuration, the Auth handler
\* has no request
NoFrontendConfig ==
    [GitAuthorEmail |-> "", GitAuthorName |-> "", AzureEnableAuth |-> FALSE,
     GKEProjectNumber |-> "", GKEBackendServiceID |-> ""]
NoUser    == [Email |-> "", Name |-> "", DexAuthContext |-> Nil]
NoServer  == [pc |-> "none", DefaultUser |-> NoUser]
NoRequest == [authorName |-> "", authorEmail |-> "", authorRole |-> "",
              iapJWT |-> "", email |-> Nil]
NoForward == [pc |-> "none", authorName |-> "", authorEmail |-> "",
              user |-> Nil, md |-> <<>>, err |-> "nil"]

\* a map without keys
EmptyMap == [k \in {} |-> Nil]

\* the frontend-service and the health server are not in use
IdleProxy  == proxyIn = <<>> /\ proxyOut = NoBatch
IdleAuth   ==
    /\ frontendConfig = NoFrontendConfig /\ server = NoServer
    /\ httpIn = NoRequest /\ httpOut = NoForward
IdleHealth ==
    /\ parts = EmptyMap /\ reported = EmptyMap
    /\ healthReq = <<>> /\ isReady = NoCall
InitServers == IdleProxy /\ IdleAuth /\ IdleHealth

\* New(): the local branch is the fetched remote branch, which is either
\* missing or holds one commit, and ProcessQueue runs.
InitRepository ==
    /\ closed = FALSE /\ wctx = FALSE
    /\ ectx = [e \in Elems |-> FALSE]
    /\ chan = [e \in Elems |-> <<>>]
    /\ \E empty \in BOOLEAN :
          IF empty
          THEN /\ commits = <<>>
               /\ localHead = NoCommit /\ origin = NoCommit
               /\ remoteHead = NoCommit
          ELSE /\ commits = (<<"x", 0>> :> [parent |-> NoCommit, elem |-> 0,
                                            tree |-> {}, msg |-> <<>>,
                                            author |-> "other",
                                            committer |-> "other"])
               /\ localHead = <<"x", 0>> /\ origin = <<"x", 0>>
               /\ remoteHead = <<"x", 0>>
    /\ argoUrl \in BOOLEAN
    /\ w = IdleWriter
    /\ sent = [e \in Elems |-> <<>>]
    /\ ran = {} /\ pickedDone = {}
    /\ commitOf = [e \in Elems |-> NoCommit]
    /\ it = NewIteration
    /\ writesDone = 0
    /\ deferred = [e \in Elems |-> NoDefer]

\* no Apply call has been made yet
Init ==
    /\ InitRepository
    /\ queue = <<>>
    /\ ts = [e \in Elems |-> <<>>]
    /\ caller = [e \in Elems |-> "none"]
    /\ fs = NoFs /\ call = NoCall
    /\ config = New(NoGcConfig)
    /\ users = [e \in Elems |-> Ptr("u1")]
    /\ InitServers

\* MaxElems Apply calls have been made and wait in the queue
InitBatch ==
    /\ InitRepository
    /\ queue = [i \in 1..MaxElems |-> i]
    /\ ts \in [Elems -> TransformerLists]
    /\ caller = [e \in Elems |-> "waiting"]
    /\ fs = NoFs /\ call = NoCall
    /\ config = New(NoGcConfig)
    /\ users = [e \in Elems |-> Ptr("u1")]
    /\ InitServers

(* ------------------------- callers and remote -------------------------- *)

\* the value v is sent on the result channel of e (the channel has room)
Send(e, v) ==
    /\ chan' = [chan EXCEPT ![e] = Append(@, v)]
    /\ sent' = [sent EXCEPT ![e] = Append(@, v)]

CanSend(e) == Len(chan[e]) < ResultCap

\* Apply -> applyDeferred -> queue.add: the element joins the queue and the
\* caller waits for its result or for its context.
Add ==
    /\ ~closed
    /\ Cardinality(Admitted) < MaxCalls
    /\ Cardinality(Admitted) < MaxElems
    /\ LET e == Cardinality(Admitted) + 1
       IN  \E list \in TransformerLists :
             /\ ts' = [ts EXCEPT ![e] = list]
             /\ caller' = [caller EXCEPT ![e] = "waiting"]
             /\ queue' = Append(queue, e)
    /\ UNCHANGED <<closed, wctx, ectx, users, chan, gitVars, argoUrl, viewVars, serverVars,
                   applyVars, w, sent, ran,
                   pickedDone, it>>

\* the context of a caller is cancelled or runs past its deadline
CancelCtx ==
    \E e \in Admitted :
      /\ ~ectx[e]
      /\ caller[e] = "waiting"
      /\ ectx' = [ectx EXCEPT ![e] = TRUE]
      /\ UNCHANGED <<queue, closed, wctx, ts, users, chan, caller, gitVars, argoUrl,
                     viewVars, serverVars, applyVars,
                     w, sent, ran, pickedDone, it>>

\* Apply: case err := <-eCh
ApplyReceive ==
    \E e \in Admitted :
      /\ caller[e] = "waiting"
      /\ chan[e] # <<>>
      /\ caller' = [caller EXCEPT ![e] = Head(chan[e])]
      /\ chan' = [chan EXCEPT ![e] = Tail(@)]
      /\ UNCHANGED <<queue, closed, wctx, ts, ectx, users, gitVars, argoUrl,
                     viewVars, serverVars, applyVars, w, sent,
                     ran, pickedDone, it>>

\* Apply: case <-ctx.Done()
ApplyCtxDone ==
    \E e \in Admitted :
      /\ caller[e] = "waiting"
      /\ ectx[e]
      /\ caller' = [caller EXCEPT ![e] = "ctxErr"]
      /\ UNCHANGED <<queue, closed, wctx, ts, ectx, users, chan, gitVars, argoUrl,
                     viewVars, serverVars, applyVars, w,
                     sent, ran, pickedDone, it>>

\* another writer pushes a commit to the remote branch
ExternalCommit(max) ==
    /\ Cardinality(ExtCommits) < max
    /\ LET new == <<"x", Cardinality(ExtCommits) + 1>>
       IN  /\ commits' = commits @@
                 (new :> [parent |-> remoteHead, elem |-> 0,
                          tree |-> TreeOf(remoteHead) \cup {X}, msg |-> <<>>,
                          author |-> "other", committer |-> "other"])
           /\ remoteHead' = new
    /\ UNCHANGED <<queue, closed, wctx, callerVars, chan, localHead, origin,
                   commitOf, argoUrl, viewVars, serverVars, applyVars, w, sent, ran, pickedDone, it>>

\* the context of ProcessQueue is cancelled.  Only the select of
\* ProcessQueue reads it, so a cancellation during an iteration is the
\* same as one when the writer is back at the select.
CancelWriter ==
    /\ ~wctx
    /\ w.pc = "idle"
    /\ wctx' = TRUE
    /\ UNCHANGED <<queue, closed, callerVars, chan, gitVars, argoUrl, viewVars, serverVars, applyVars, w, sent,
                   ran, pickedDone, it>>

(* --------------------------- the writer loop --------------------------- *)

\* ProcessQueueOnce returns: the deferred function sends err to every
\* element still in elements, one send per step
Return(ww) ==
    LET w1 == [ww EXCEPT !.idx = 0, !.allow = FALSE, !.pass = 0,
                         !.achanges = EmptyResult, !.changes = Nil,
                         !.pushSuccess = TRUE, !.tries = 0, !.hookTry = 0,
                         !.resp = "none"]
    IN  IF w1.elements = <<>> THEN [w1 EXCEPT !.pc = "idle"]
        ELSE [w1 EXCEPT !.pc = "defer", !.pending = w1.elements]

\* ProcessQueue receives e and calls ProcessQueueOnce, which checks that
\* the first element is not already cancelled.
Receive ==
    /\ w.pc = "idle"
    /\ queue # <<>>
    /\ LET e  == Head(queue)
           w0 == [IdleWriter EXCEPT !.elements = <<e>>]
       IN  /\ queue' = Tail(queue)
           /\ it' = NewIteration
           /\ IF ectx[e]
              THEN /\ Send(e, "ctxErr")
                   /\ pickedDone' = pickedDone \cup {e}
                   /\ w' = Return(w0)
              ELSE /\ w' = [w0 EXCEPT !.pc = "drain"]
                   /\ UNCHANGED <<chan, sent, pickedDone>>
    /\ UNCHANGED <<closed, wctx, callerVars, gitVars, argoUrl, viewVars, serverVars, applyVars, ran>>

\* ProcessQueue: case <-ctx.Done(); the deferred function closes the queue
Shutdown ==
    /\ w.pc = "idle"
    /\ wctx
    /\ closed' = TRUE
    /\ w' = [w EXCEPT !.pc = "shutdown"]
    /\ UNCHANGED <<queue, wctx, callerVars, chan, gitVars, argoUrl, viewVars, serverVars, applyVars, sent, ran,
                   pickedDone, it>>

\* ProcessQueue: for e := range r.queue.elements { e.result <- ctx.Err() }
ShutdownSend ==
    /\ w.pc = "shutdown"
    /\ IF queue = <<>>
       THEN /\ w' = [w EXCEPT !.pc = "stopped"]
            /\ UNCHANGED <<queue, chan, sent>>
       ELSE /\ CanSend(Head(queue))
            /\ Send(Head(queue), "ctxErr")
            /\ queue' = Tail(queue)
            /\ UNCHANGED w
    /\ UNCHANGED <<closed, wctx, callerVars, gitVars, argoUrl, viewVars, serverVars,
                   applyVars, ran, pickedDone, it>>

\* a drain that puts the element in front
Drained_InFront(elements, f) == <<f>> \o elements

\* drainQueue: elements = append(elements, f)
Drained(elements, f) == Append(elements, f)

\* drainQueue: one round of the non-blocking receive loop
DrainQueue ==
    /\ w.pc = "drain"
    /\ IF queue = <<>>
       THEN /\ w' = [w EXCEPT !.pc = "apply", !.idx = 1, !.allow = TRUE,
                              !.pass = 1, !.achanges = EmptyResult]
            /\ it' = [it EXCEPT !.batch = w.elements]
            /\ UNCHANGED <<queue, chan, sent, pickedDone>>
       ELSE LET f == Head(queue)
            IN  /\ queue' = Tail(queue)
                /\ IF ectx[f]
                   THEN /\ Send(f, "ctxErr")
                        /\ pickedDone' = pickedDone \cup {f}
                        /\ UNCHANGED w
                   ELSE /\ w' = [w EXCEPT !.elements = Drained(@, f)]
                        /\ UNCHANGED <<chan, sent, pickedDone>>
                /\ UNCHANGED it
    /\ UNCHANGED <<closed, wctx, callerVars, gitVars, argoUrl, viewVars, serverVars, applyVars, ran>>

\* the signature of the service: r.config.CommitterName, CommitterEmail
Committer == "kuberpult"

\* the users a context can carry
UserNames == {"u1", "u2"}

\* strings.Join(elems, sep)
RECURSIVE Join(_, _)
Join(elems, sep) ==
    IF Len(elems) <= 1 THEN elems
    ELSE <<Head(elems), sep>> \o Join(Tail(elems), sep)

\* a lookup that answers with a user of its own when the context has none
ReadUserFromContext_Anonymous(e) ==
    IF users[e] = Nil THEN [user |-> Ptr("anonymous"), err |-> "nil"]
    ELSE [user |-> users[e], err |-> "nil"]

\* auth.ReadUserFromContext on the context of element e
ReadUserFromContext(e) ==
    IF users[e] = Nil THEN [user |-> Nil, err |-> "internalUser"]
    ELSE [user |-> users[e], err |-> "nil"]

\* ApplyTransformers that commits what was staged before a transformer failed
ApplyTransformers_CommitsStaged(list, e, head, commitOk) ==
    LET r    == ApplyTransformersInternal(list, e, TreeOf(head))
        new  == <<"l", Cardinality(LocalCommits) + 1>>
    IN  [err     |-> r.err,
         result  |-> Nil,
         commits |-> commits @@ (new :> [parent |-> head, elem |-> e,
                                         tree |-> r.tree,
                                         msg |-> Join(r.msgs, "\n"),
                                         author |-> IF users[e] = Nil THEN ""
                                                    ELSE users[e][1],
                                         committer |-> Committer]),
         head    |-> new]

\* ApplyTransformers for element e on the local branch head: the error, the
\* change-set (a pointer), and the object database and branch afterwards.
\* commitOk: CreateCommitFromIds succeeds.
ApplyTransformers(list, e, head, commitOk) ==
    LET r    == ApplyTransformersInternal(list, e, TreeOf(head))
        new  == <<"l", Cardinality(LocalCommits) + 1>>
        keep(x) == [err |-> x, result |-> Nil, commits |-> commits, head |-> head]
        user == ReadUserFromContext(e)
    IN  IF r.err # "nil" THEN keep(r.err)
        ELSE IF user.err # "nil" THEN keep(user.err)
        ELSE IF ~commitOk THEN keep("internalCommit")
        ELSE [err     |-> "nil",
              result  |-> Ptr([CombineArray(r.changes) EXCEPT !.commits = <<head, new>>]),
              commits |-> commits @@ (new :> [parent |-> head, elem |-> e,
                                              tree |-> r.tree,
                                              msg |-> Join(r.msgs, "\n"),
                                              author |-> user.user[1],
                                              committer |-> Committer]),
              head    |-> new]

\* FetchAndReset that fetches but leaves the local branch where it is
FetchAndReset_NoReset(fetchOk) ==
    IF ~fetchOk
    THEN [err |-> "internalFetch", origin |-> origin, head |-> localHead]
    ELSE LET o == IF remoteHead # NoCommit THEN remoteHead ELSE origin
         IN  IF o = NoCommit
             THEN [err |-> "lookupErr", origin |-> o, head |-> localHead]
             ELSE [err |-> "nil", origin |-> o, head |-> localHead]

\* FetchAndReset: fetch the remote branch into refs/remotes/origin/<branch>
\* and reset the local branch to it.  fetchOk: the fetch succeeds.
FetchAndReset(fetchOk) ==
    IF ~fetchOk
    THEN [err |-> "internalFetch", origin |-> origin, head |-> localHead]
    ELSE LET o == IF remoteHead # NoCommit THEN remoteHead ELSE origin
         IN  IF o = NoCommit
             THEN [err |-> "lookupErr", origin |-> o, head |-> localHead]
             ELSE [err |-> "nil", origin |-> o, head |-> o]

\* a removal that also drops the elements behind i
RemoveAt_DropsRest(elements, i) == SubSeq(elements, 1, i - 1)

\* elements = append(elements[:i], elements[i+1:]...)
RemoveAt(elements, i) ==
    SubSeq(elements, 1, i - 1) \o SubSeq(elements, i + 1, Len(elements))

\* applyElements returns (elements, nil, changes) to ProcessQueueOnce: the
\* first call assigns changes, the call after the reset discards them;
\* then len(elements) == 0 returns, otherwise Push follows.
AfterApply(ww) ==
    IF ww.idx <= Len(ww.elements) THEN ww
    ELSE LET w1 == IF ww.pass = 1
                   THEN [ww EXCEPT !.err = "nil", !.changes = Ptr(ww.achanges)]
                   ELSE [ww EXCEPT !.err = "nil"]
         IN  IF w1.elements = <<>> THEN Return(w1)
             ELSE [w1 EXCEPT !.pc = "push", !.tries = 0, !.idx = 0,
                             !.achanges = EmptyResult]

\* applyElements: one round of the loop, for elements[i]
ApplyElements ==
    /\ w.pc = "apply"
    /\ \E commitOk \in BOOLEAN, fetchOk \in BOOLEAN :
         LET e == w.elements[w.idx]
             a == ApplyTransformers(ts[e], e, localHead, commitOk)
             f == FetchAndReset(fetchOk)
         IN  /\ ran' = ran \cup {e}
             /\ IF a.err = "nil"
                THEN /\ commits' = a.commits
                     /\ localHead' = a.head
                     /\ commitOf' = [commitOf EXCEPT ![e] = a.head]
                     /\ w' = AfterApply([w EXCEPT !.idx = @ + 1,
                                 !.achanges = Combine(w.achanges, a.result)])
                     /\ UNCHANGED <<origin, chan, sent, it>>
                ELSE IF a.err = "invalidJson" /\ w.allow
                THEN /\ origin' = f.origin
                     /\ localHead' = IF f.err = "nil" THEN f.head ELSE a.head
                     /\ it' = [it EXCEPT !.resets = @ + 1, !.fetched = f.origin]
                     /\ w' = IF f.err # "nil"
                             THEN Return([w EXCEPT !.err = f.err])
                             ELSE [w EXCEPT !.idx = 1, !.allow = FALSE,
                                            !.achanges = EmptyResult]
                     /\ commits' = a.commits
                     /\ UNCHANGED <<commitOf, chan, sent>>
                ELSE /\ CanSend(e)
                     /\ Send(e, a.err)
                     /\ commits' = a.commits
                     /\ localHead' = a.head
                     /\ w' = AfterApply([w EXCEPT !.elements = RemoveAt(@, w.idx)])
                     /\ UNCHANGED <<origin, commitOf, it>>
    /\ UNCHANGED <<queue, closed, wctx, callerVars, remoteHead, argoUrl,
                   viewVars, serverVars, applyVars, pickedDone>>

\* what one invocation of the push action can report: the remote rejects a
\* branch that does not contain its head as non-fast-forward; otherwise it
\* moves the ref, or accepts the push without moving the ref (branch
\* protection); the transport may fail or time out at any time
PushOutcomes ==
    IF remoteHead # NoCommit /\ remoteHead \notin Ancestors(localHead)
    THEN {"nff", "denied", "ctx"}
    ELSE {"moved", "protected", "denied", "ctx"}

\* a first push whose every failure is reported as missing write access
FirstPushErr_AlwaysPublic(pushErr, pushSuccess) ==
    IF pushErr = "nil" THEN (IF pushSuccess THEN "nil" ELSE "protected")
    ELSE "public"

\* ProcessQueueOnce after the first Push returned pushErr
FirstPushErr(pushErr, pushSuccess) ==
    IF pushErr = "nil" THEN (IF pushSuccess THEN "nil" ELSE "protected")
    ELSE IF pushErr = "ctx" THEN "cancelled"
    ELSE "public"

\* a second push whose failure is reported like that of the first
SecondPushErr_Public(pushErr, err) ==
    IF pushErr # "nil" THEN "public" ELSE err

\* ProcessQueueOnce after the Push that follows the reset returned pushErr
SecondPushErr(pushErr, err) ==
    IF pushErr # "nil" THEN "internalPush" ELSE err

\* Push returned pushErr to ProcessQueueOnce
AfterPush(ww, pushErr) ==
    IF ww.pass = 1
    THEN IF pushErr = "nff"
         THEN [ww EXCEPT !.pc = "reset", !.err = "nff", !.tries = 0]
         ELSE [ww EXCEPT !.pc = "postpush", !.tries = 0,
                         !.err = FirstPushErr(pushErr, ww.pushSuccess)]
    ELSE [ww EXCEPT !.pc = "postpush", !.tries = 0,
                    !.err = SecondPushErr(pushErr, ww.err)]

\* what one invocation of the push action returned: nil, the
\* non-fast-forward GitError or another error
ActionErr(out) ==
    IF out \in {"moved", "protected"} THEN "nil"
    ELSE IF out = "nff" THEN "nff" ELSE "err"

\* a retry loop for which non-fast-forward is an error like any other
RetryReturns_RetriesNff(out, tries, giveUp) ==
    \/ ActionErr(out) = "nil"
    \/ tries >= MaxRetries \/ giveUp

\* backoff.Retry returns after this invocation: the operation returned nil
\* or a Permanent error, or the back-off policy has no next interval
\* (tries retries made, or MaxElapsedTime passed: giveUp)
RetryReturns(out, tries, giveUp) ==
    \/ ActionErr(out) = "nil"
    \/ ActionErr(out) = "nff"
    \/ tries >= MaxRetries \/ giveUp

\* Push: one invocation of the push action under backoff.Retry.  A
\* non-fast-forward error is permanent; other errors are retried until
\* MaxRetries retries are used up or MaxElapsedTime has passed (giveUp).
Push ==
    /\ w.pc = "push"
    /\ \E out \in PushOutcomes, giveUp \in BOOLEAN :
         LET w1 == [w EXCEPT !.tries = @ + 1,
                             !.pushSuccess = IF out = "moved" THEN TRUE
                                             ELSE IF out = "protected" THEN FALSE
                                             ELSE @]
         IN  /\ remoteHead' = IF out = "moved" THEN localHead ELSE remoteHead
             /\ it' = [it EXCEPT !.pushMoved = @ \/ out = "moved",
                                 !.survived = IF w.pass = 1 THEN w.elements ELSE @,
                                 !.pushCalls = IF w.tries = 0 THEN @ + 1 ELSE @,
                                 !.action = ActionErr(out),
                                 !.lastPush = IF RetryReturns(out, w.tries, giveUp)
                                              THEN out ELSE @]
             /\ w' = IF ~RetryReturns(out, w.tries, giveUp) THEN w1
                     ELSE IF ActionErr(out) = "nil" THEN AfterPush(w1, "nil")
                     ELSE AfterPush(w1, out)
    /\ UNCHANGED <<queue, closed, wctx, callerVars, chan, commits, localHead,
                   origin, commitOf, argoUrl, viewVars, serverVars, applyVars, sent, ran, pickedDone>>

\* ProcessQueueOnce: FetchAndReset after a non-fast-forward push, then the
\* second applyElements with allowFetchAndReset = false
Reset ==
    /\ w.pc = "reset"
    /\ \E fetchOk \in BOOLEAN :
         LET f == FetchAndReset(fetchOk)
         IN  /\ origin' = f.origin
             /\ localHead' = f.head
             /\ it' = [it EXCEPT !.resets = @ + 1, !.fetched = f.origin]
             /\ w' = IF f.err # "nil" THEN Return([w EXCEPT !.err = f.err])
                     ELSE [w EXCEPT !.pc = "apply", !.pass = 2, !.idx = 1,
                                    !.allow = FALSE, !.achanges = EmptyResult,
                                    !.err = "nil"]
    /\ UNCHANGED <<queue, closed, wctx, callerVars, chan, commits, remoteHead,
                   commitOf, argoUrl, viewVars, serverVars, applyVars, sent, ran, pickedDone>>

\* sendWebhookToArgoCd: the ArgoWebhookData built from the change-set
Payload(changes) ==
    [modified |-> changes[1].apps,
     removed  |-> changes[1].roots,
     before   |-> changes[1].commits[1],
     after    |-> changes[1].commits[2]]

\* ProcessQueueOnce after the push: the webhook if a URL is configured
PostPush ==
    /\ w.pc = "postpush"
    /\ IF argoUrl
       THEN /\ w' = [w EXCEPT !.pc = "webhook", !.hookTry = 1]
            /\ it' = [it EXCEPT !.hookCalls = @ + 1,
                                !.payload = Ptr(Payload(w.changes))]
       ELSE /\ w' = [w EXCEPT !.pc = "notify"]
            /\ UNCHANGED it
    /\ UNCHANGED <<queue, closed, wctx, callerVars, chan, gitVars, argoUrl, viewVars, serverVars, applyVars,
                   sent, ran, pickedDone>>

\* the answers Argo CD can give to one POST
Responses == {"200", "204", "404", "500", "transport"}

\* a request whose every failure is worth a retry
doWebhookPostRequest_RetriesAll(resp) ==
    IF resp = "200" THEN [err |-> FALSE, shouldRetry |-> FALSE]
    ELSE [err |-> TRUE, shouldRetry |-> TRUE]

\* doWebhookPostRequest: (err != nil, shouldRetry) for an answer
doWebhookPostRequest(resp) ==
    IF resp = "transport" THEN [err |-> TRUE, shouldRetry |-> FALSE]
    ELSE IF resp = "500" THEN [err |-> TRUE, shouldRetry |-> TRUE]
    ELSE IF resp = "200" THEN [err |-> FALSE, shouldRetry |-> FALSE]
    ELSE [err |-> TRUE, shouldRetry |-> FALSE]

\* a dispatcher that reports a failed dispatch to the elements
Webhook_FailsRequest ==
    /\ w.pc = "webhook"
    /\ \E resp \in Responses :
         LET d == doWebhookPostRequest(resp)
         IN  /\ it' = [it EXCEPT !.hookSuccess = ~(d.err /\ d.shouldRetry)]
             /\ w' = IF d.err /\ d.shouldRetry /\ w.hookTry < maxArgoRequests
                     THEN [w EXCEPT !.hookTry = @ + 1, !.resp = resp]
                     ELSE [w EXCEPT !.pc = "notify", !.hookTry = 0,
                                    !.resp = resp,
                                    !.err = IF d.err THEN "webhookErr" ELSE @]
    /\ UNCHANGED <<queue, closed, wctx, callerVars, chan, gitVars, argoUrl, viewVars, serverVars, applyVars,
                   sent, ran, pickedDone>>

\* sendWebhookToArgoCd: one round of the loop for i := 1; i <= maxArgoRequests
Webhook ==
    /\ w.pc = "webhook"
    /\ \E resp \in Responses :
         LET d == doWebhookPostRequest(resp)
         IN  /\ it' = [it EXCEPT !.hookSuccess = ~(d.err /\ d.shouldRetry)]
             /\ w' = IF d.err /\ d.shouldRetry /\ w.hookTry < maxArgoRequests
                     THEN [w EXCEPT !.hookTry = @ + 1, !.resp = resp]
                     ELSE [w EXCEPT !.pc = "notify", !.hookTry = 0,
                                    !.resp = resp]
    /\ UNCHANGED <<queue, closed, wctx, callerVars, chan, gitVars, argoUrl, viewVars, serverVars, applyVars,
                   sent, ran, pickedDone>>

\* ProcessQueueOnce: r.notify.Notify(), then the function returns
Notify ==
    /\ w.pc = "notify"
    /\ it' = [it EXCEPT !.notified = @ + 1]
    /\ w' = Return(w)
    /\ UNCHANGED <<queue, closed, wctx, callerVars, chan, gitVars, argoUrl, viewVars, serverVars, applyVars,
                   sent, ran, pickedDone>>

\* the deferred function of ProcessQueueOnce: el.result <- err
Defer ==
    /\ w.pc = "defer"
    /\ LET e == Head(w.pending)
       IN  /\ CanSend(e)
           /\ Send(e, w.err)
           /\ w' = [w EXCEPT !.pending = Tail(@),
                             !.pc = IF Tail(w.pending) = <<>> THEN "idle" ELSE @]
    /\ UNCHANGED <<queue, closed, wctx, callerVars, gitVars, argoUrl, viewVars, serverVars, applyVars, ran,
                   pickedDone, it>>

Next ==
    \/ Add \/ CancelCtx \/ ApplyReceive \/ ApplyCtxDone
    \/ ExternalCommit(MaxExt) \/ CancelWriter
    \/ Receive \/ Shutdown \/ ShutdownSend \/ DrainQueue \/ ApplyElements
    \/ Push \/ Reset \/ PostPush \/ Webhook \/ Notify \/ Defer

Spec == Init /\ [][Next]_vars

\* the writer on a queue of MaxElems waiting elements, and the remote
NextBatch ==
    \/ ExternalCommit(MaxExtBatch)
    \/ Receive \/ DrainQueue \/ ApplyElements
    \/ Push \/ Reset \/ PostPush \/ Webhook \/ Notify \/ Defer

SpecBatch == InitBatch /\ [][NextBatch]_vars

\* MaxElems Apply calls wait in the queue, all with transformers that
\* succeed or fail on their own
InitLive ==
    /\ InitRepository
    /\ queue = [i \in 1..MaxElems |-> i]
    /\ ts \in [Elems -> {<<"ok", "ok">>, <<"ok", "fail">>}]
    /\ caller = [e \in Elems |-> "waiting"]
    /\ fs = NoFs /\ call = NoCall
    /\ config = New(NoGcConfig)
    /\ users = [e \in Elems |-> Ptr("u1")]
    /\ InitServers

\* the writer, the remote, and the callers, whose contexts may end
NextLive ==
    \/ CancelCtx \/ ApplyReceive \/ ApplyCtxDone
    \/ ExternalCommit(MaxExt)
    \/ Receive \/ DrainQueue \/ ApplyElements
    \/ Push \/ Reset \/ PostPush \/ Webhook \/ Notify \/ Defer

\* The writer goroutine takes its next step whenever it can (the network
\* operations return), and a caller blocked in the select of Apply takes
\* a case that is ready.
Fairness ==
    /\ WF_vars(Receive) /\ WF_vars(DrainQueue) /\ WF_vars(ApplyElements)
    /\ WF_vars(Push) /\ WF_vars(Reset) /\ WF_vars(PostPush)
    /\ WF_vars(Webhook) /\ WF_vars(Notify) /\ WF_vars(Defer)
    /\ WF_vars(ApplyReceive \/ ApplyCtxDone)

SpecLive == InitLive /\ [][NextLive]_vars /\ Fairness

\* the writer goroutine on a queue of MaxElems waiting elements, scheduled
\* until it blocks
SpecBatchLive == InitBatch /\ [][NextBatch]_vars /\ Fairness

(* ------------------- Apply's deferred function and GC ------------------- *)

\* the GcFrequency values a repository is configured with
GcFrequencies == {0, 3}

\* the RepositoryConfig values handed to New
RepositoryConfigs ==
    [StorageBackend : {DefaultBackend, GitBackend, SqliteBackend},
     GcFrequency : GcFrequencies]

\* everything the deferred function of Apply leaves alone
ApplyUnchanged ==
    UNCHANGED <<queue, closed, wctx, callerVars, chan, gitVars, argoUrl,
                viewVars, serverVars, w, sent, ran, pickedDone, it, config>>

\* Apply has returned and its deferred function reads r.writesDone.  The
\* field is read and written without a lock by every goroutine that
\* called Apply, so the read and the write are steps of their own.
ApplyDeferRead ==
    \E e \in Admitted :
      /\ caller[e] \notin {"none", "waiting"}
      /\ deferred[e].pc = "none"
      /\ deferred' = [deferred EXCEPT ![e] = [pc |-> "write", read |-> writesDone]]
      /\ UNCHANGED writesDone
      /\ ApplyUnchanged

\* r.writesDone = r.writesDone + uint(len(transformers))
ApplyDeferWrite ==
    \E e \in Admitted :
      /\ deferred[e].pc = "write"
      /\ writesDone' = deferred[e].read + Len(ts[e])
      /\ deferred' = [deferred EXCEPT ![e].pc = "check"]
      /\ ApplyUnchanged

\* maybeGc goes past its first return
GcDue(cfg, writes) ==
    ~(\/ cfg.StorageBackend = SqliteBackend
      \/ cfg.GcFrequency = 0
      \/ writes < cfg.GcFrequency)

\* maybeGc: the check of backend, frequency and counter
maybeGc ==
    \E e \in Admitted :
      /\ deferred[e].pc = "check"
      /\ deferred' = [deferred EXCEPT ![e].pc =
                         IF GcDue(config, writesDone) THEN "reset" ELSE "done"]
      /\ UNCHANGED writesDone
      /\ ApplyUnchanged

\* maybeGc: r.writesDone = 0, then git repack -a -d is started
RepackStart ==
    \E e \in Admitted :
      /\ deferred[e].pc = "reset"
      /\ writesDone' = 0
      /\ deferred' = [deferred EXCEPT ![e].pc = "repack"]
      /\ ApplyUnchanged

\* maybeGc: cmd.Run() has returned
RepackEnd ==
    \E e \in Admitted :
      /\ deferred[e].pc = "repack"
      /\ deferred' = [deferred EXCEPT ![e].pc = "done"]
      /\ UNCHANGED writesDone
      /\ ApplyUnchanged

\* a repository with a remote branch, without webhook, under any
\* garbage collection config; no Apply call has been made
InitGc ==
    /\ InitRepository
    /\ localHead # NoCommit /\ ~argoUrl
    /\ queue = <<>>
    /\ ts = [e \in Elems |-> <<>>]
    /\ caller = [e \in Elems |-> "none"]
    /\ fs = NoFs /\ call = NoCall
    /\ \E cfg \in RepositoryConfigs : config = New(cfg)
    /\ users = [e \in Elems |-> Ptr("u1")]
    /\ InitServers

\* the callers of Apply with their deferred functions, and the writer
NextGc ==
    \/ Add \/ CancelCtx \/ ApplyReceive \/ ApplyCtxDone
    \/ Receive \/ DrainQueue \/ ApplyElements \/ Push \/ PostPush
    \/ Notify \/ Defer
    \/ ApplyDeferRead \/ ApplyDeferWrite \/ maybeGc \/ RepackStart \/ RepackEnd

SpecGc == InitGc /\ [][NextGc]_vars

\* MaxElems Apply calls wait in the queue; a context carries a user or
\* none
InitCommit ==
    /\ InitRepository
    /\ queue = [i \in 1..MaxElems |-> i]
    /\ ts \in [Elems -> {<<"ok", "ok">>, <<"ok", "fail">>}]
    /\ caller = [e \in Elems |-> "waiting"]
    /\ fs = NoFs /\ call = NoCall
    /\ config = New(NoGcConfig)
    /\ users \in [Elems -> {Nil} \cup {Ptr(u) : u \in UserNames}]
    /\ InitServers

SpecCommit == InitCommit /\ [][NextBatch]_vars

\* the context of ProcessQueue is cancelled, at any point of an iteration
CancelProcessQueue ==
    /\ ~wctx
    /\ wctx' = TRUE
    /\ UNCHANGED <<queue, closed, callerVars, chan, gitVars, argoUrl, viewVars, serverVars,
                   applyVars, w, sent, ran, pickedDone, it>>

\* MaxElems Apply calls wait in the queue of a repository with a remote
\* branch and without webhook
InitStop ==
    /\ InitRepository
    /\ localHead # NoCommit /\ ~argoUrl
    /\ queue = [i \in 1..MaxElems |-> i]
    /\ ts = [e \in Elems |-> <<"ok", "ok">>]
    /\ caller = [e \in Elems |-> "waiting"]
    /\ fs = NoFs /\ call = NoCall
    /\ config = New(NoGcConfig)
    /\ users = [e \in Elems |-> Ptr("u1")]
    /\ InitServers

\* the writer until it has stopped, and the callers
NextStop ==
    \/ CancelCtx \/ ApplyReceive \/ ApplyCtxDone \/ CancelProcessQueue
    \/ Receive \/ Shutdown \/ ShutdownSend \/ DrainQueue \/ ApplyElements
    \/ Push \/ PostPush \/ Notify \/ Defer

\* the writer goroutine also takes the steps of its shutdown
FairnessStop ==
    Fairness /\ WF_vars(Shutdown) /\ WF_vars(ShutdownSend)

SpecStop == InitStop /\ [][NextStop]_vars /\ FairnessStop

\* useRemote has returned ctx.Err() to Push after NetworkTimeout, and Push
\* to ProcessQueueOnce; the goroutine useRemote started still runs the
\* push callback, and the remote now accepts the branch it was given.
LatePush ==
    /\ it.lastPush = "ctx"
    /\ w.pc # "push"
    /\ remoteHead # localHead
    /\ remoteHead = NoCommit \/ remoteHead \in Ancestors(localHead)
    /\ remoteHead' = localHead
    /\ UNCHANGED <<queue, closed, wctx, callerVars, chan, commits, localHead,
                   origin, commitOf, argoUrl, viewVars, serverVars, applyVars, w, sent,
                   ran, pickedDone, it>>

\* the writer on a queue of MaxElems waiting elements, the remote, and the
\* callbacks that outlive useRemote
NextRemote ==
    \/ ExternalCommit(MaxExt)
    \/ Receive \/ DrainQueue \/ ApplyElements
    \/ Push \/ Reset \/ PostPush \/ Webhook \/ Notify \/ Defer
    \/ LatePush

SpecRemote == InitLive /\ [][NextRemote]_vars

(* ---------------------------- the State view -------------------------- *)

\* File names are sequences of characters.  The names there are under
\* applications/<app>/releases: "1", "2", "10" and the non-numeric "x".
Names == { <<"1">>, <<"2">>, <<"1", "0">>, <<"x">> }

\* the byte value of a character (the order of file names)
CharOrd(c) ==
    CASE c = "0" -> 48 [] c = "1" -> 49 [] c = "2" -> 50
      [] c = "a" -> 97 [] c = "b" -> 98 [] c = "x" -> 120

\* bytewise order of two file names
RECURSIVE NameLess(_, _)
NameLess(a, b) ==
    IF a = <<>> THEN b # <<>>
    ELSE IF b = <<>> THEN FALSE
    ELSE IF Head(a) # Head(b) THEN CharOrd(Head(a)) < CharOrd(Head(b))
    ELSE NameLess(Tail(a), Tail(b))

\* Filesystem.ReadDir: the entries of a directory sorted by file name
RECURSIVE ReadDir(_)
ReadDir(entries) ==
    IF entries = {} THEN <<>>
    ELSE LET first == CHOOSE n \in entries :
                        \A m \in entries \ {n} : NameLess(n, m)
         IN  <<first>> \o ReadDir(entries \ {first})

\* strconv.ParseUint(name, 10, 64): the number a decimal name denotes
RECURSIVE ParseUint(_)
ParseUint(name) ==
    IF name = <<>> THEN [err |-> TRUE, val |-> 0]
    ELSE LET c    == name[Len(name)]
             rest == SubSeq(name, 1, Len(name) - 1)
             d    == CASE c = "0" -> 0 [] c = "1" -> 1 [] c = "2" -> 2
                       [] OTHER -> 10
             r    == IF rest = <<>> THEN [err |-> FALSE, val |-> 0]
                     ELSE ParseUint(rest)
         IN  IF d = 10 \/ r.err THEN [err |-> TRUE, val |-> 0]
             ELSE [err |-> FALSE, val |-> 10 * r.val + d]

\* the numbers of the entries that parse, in the order of the entries
RECURSIVE ParsedEntries(_)
ParsedEntries(entries) ==
    IF entries = <<>> THEN <<>>
    ELSE LET p == ParseUint(Head(entries))
         IN  (IF p.err THEN <<>> ELSE <<p.val>>) \o ParsedEntries(Tail(entries))

\* sort.Slice(result, func(i, j) bool { return result[i] < result[j] })
RECURSIVE SortSlice(_)
SortSlice(result) ==
    IF result = <<>> THEN <<>>
    ELSE LET i == CHOOSE i \in DOMAIN result :
                    \A j \in DOMAIN result : result[i] <= result[j]
         IN  <<result[i]>> \o
             SortSlice(SubSeq(result, 1, i - 1) \o
                       SubSeq(result, i + 1, Len(result)))

\* State.Releases(application)
Releases(f) == ParsedEntries(ReadDir(f.releases))

\* State.GetApplicationReleases(application)
GetApplicationReleases(f) == SortSlice(ParsedEntries(ReadDir(f.releases)))

\* a symbolic link that is not there, and the two links of an
\* (environment, application) slot
NoLink == <<>>
LinkNames == {"version", "queued_version"}
Links == {NoLink} \cup Names

\* a readSymlink that does not look whether the target is there
readSymlink_NoStat(f, symlinkName) ==
    LET lnk == f[symlinkName]
    IN  IF lnk = NoLink THEN [res |-> Nil, err |-> "nil"]
        ELSE LET p == ParseUint(lnk)
             IN  [res |-> Ptr(p.val), err |-> IF p.err THEN "parse" ELSE "nil"]

\* State.readSymlink(environment, application, symlinkName): the link holds
\* the path of a release directory, given here by the name of the release
readSymlink(f, symlinkName) ==
    LET lnk == f[symlinkName]
    IN  IF lnk = NoLink THEN [res |-> Nil, err |-> "nil"]
        ELSE IF lnk \notin f.releases THEN [res |-> Nil, err |-> "stat"]
        ELSE LET p == ParseUint(lnk)
             IN  [res |-> Ptr(p.val), err |-> IF p.err THEN "parse" ELSE "nil"]

GetQueuedVersion(f) == readSymlink(f, "queued_version")

GetEnvironmentApplicationVersion(f) == readSymlink(f, "version")

\* a removal of the version link instead
DeleteQueuedVersion_RemovesVersion(f) == [f EXCEPT !.version = NoLink]

\* State.DeleteQueuedVersion: Filesystem.Remove of the queued_version link
DeleteQueuedVersion(f) == [f EXCEPT !.queued_version = NoLink]

\* State.ProcessQueue(ctx, fs, environment, application): the message, the
\* error and the filesystem afterwards
ProcessQueue(f) ==
    LET queuedVersion == GetQueuedVersion(f)
        currentlyDeployedVersion == GetEnvironmentApplicationVersion(f)
    IN  IF queuedVersion.err # "nil"
        THEN [msg |-> "", err |-> queuedVersion.err, fs |-> f]
        ELSE IF queuedVersion.res = Nil
        THEN [msg |-> "", err |-> "nil", fs |-> f]
        ELSE IF currentlyDeployedVersion.err # "nil"
        THEN [msg |-> "", err |-> currentlyDeployedVersion.err, fs |-> f]
        ELSE IF /\ currentlyDeployedVersion.res # Nil
                /\ queuedVersion.res[1] = currentlyDeployedVersion.res[1]
        THEN [msg |-> "deleted queued version", err |-> "nil",
              fs |-> DeleteQueuedVersion(f)]
        ELSE [msg |-> "", err |-> "nil", fs |-> f]

\* A file is Nil when it does not exist and Ptr(content) when it does; a
\* directory of metadata files is a record of files.
RFC3339 == "2006-01-02T15:04:05Z07:00"
DeployedAtLayout == "2006-01-02 15:04:05 -0700 MST"
TimeContents ==
    { "2024-05-06T07:08:09Z", "2024-05-06 07:08:09 +0000 UTC", "yesterday" }
ZeroTime == "0001-01-01T00:00:00Z"

\* time.Parse(layout, strings.TrimSpace(content))
ParseTime(layout, content) ==
    IF \/ layout = RFC3339 /\ content = "2024-05-06T07:08:09Z"
       \/ layout = DeployedAtLayout /\ content = "2024-05-06 07:08:09 +0000 UTC"
    THEN [err |-> "nil", time |-> "2024-05-06T07:08:09Z"]
    ELSE [err |-> "parseTime", time |-> ZeroTime]

\* the lock directories there are: message and creator are there or not,
\* created_at is missing or holds one of TimeContents
LockDirs ==
    { [kind |-> "dir", message |-> m, created_by_email |-> m, created_by_name |-> m,
       created_at |-> t] :
         m \in {Nil, Ptr("text")},
         t \in {Nil, Ptr("2024-05-06T07:08:09Z"), Ptr("yesterday")} }

\* type Lock struct { Message, CreatedBy, CreatedAt }
ZeroLock == [Message |-> "", Email |-> "", Name |-> "", CreatedAt |-> ZeroTime]

\* readLock(fs, lockDir)
readLock(lockDir) ==
    LET l1 == IF lockDir.message = Nil THEN ZeroLock
              ELSE [ZeroLock EXCEPT !.Message = lockDir.message[1]]
        l2 == IF lockDir.created_by_email = Nil THEN l1
              ELSE [l1 EXCEPT !.Email = lockDir.created_by_email[1]]
        l3 == IF lockDir.created_by_name = Nil THEN l2
              ELSE [l2 EXCEPT !.Name = lockDir.created_by_name[1]]
    IN  IF lockDir.created_at = Nil THEN [lock |-> Ptr(l3), err |-> "nil"]
        ELSE LET t == ParseTime(RFC3339, lockDir.created_at[1])
             IN  IF t.err # "nil" THEN [lock |-> Nil, err |-> t.err]
                 ELSE [lock |-> Ptr([l3 EXCEPT !.CreatedAt = t.time]),
                       err |-> "nil"]

\* an entry of a locks directory: absent, a loose file, or a lock directory
NoEntry == [kind |-> "none"]
LooseFile == [kind |-> "file"]
LockIds == { <<"1">>, <<"2">>, <<"1", "0">> }
LockEntries == {NoEntry, LooseFile} \cup LockDirs
NoLocks == [id \in LockIds |-> NoEntry]

\* the loop of GetEnvironmentLocks / GetEnvironmentApplicationLocks over
\* the entries of the locks directory dir, with the map filled so far
\* a loop that leaves loose files out and goes on
RECURSIVE LocksLoop_SkipsFiles(_, _, _)
LocksLoop_SkipsFiles(dir, entries, result) ==
    IF entries = <<>> THEN [res |-> Ptr(result), err |-> "nil"]
    ELSE LET e == Head(entries)
         IN  IF dir[e].kind # "dir"
             THEN LocksLoop_SkipsFiles(dir, Tail(entries), result)
             ELSE LET l == readLock(dir[e])
                  IN  IF l.err # "nil" THEN [res |-> Nil, err |-> l.err]
                      ELSE LocksLoop_SkipsFiles(dir, Tail(entries),
                                     result \cup {<<e, l.lock[1]>>})

RECURSIVE LocksLoop(_, _, _)
LocksLoop(dir, entries, result) ==
    IF entries = <<>> THEN [res |-> Ptr(result), err |-> "nil"]
    ELSE LET e == Head(entries)
         IN  IF dir[e].kind # "dir" THEN [res |-> Nil, err |-> "foundFile"]
             ELSE LET l == readLock(dir[e])
                  IN  IF l.err # "nil" THEN [res |-> Nil, err |-> l.err]
                      ELSE LocksLoop(dir, Tail(entries),
                                     result \cup {<<e, l.lock[1]>>})

\* State.GetEnvironmentLocks(environment); the map is a set of
\* <<lock id, Lock>> pairs
GetEnvironmentLocks(f) ==
    LocksLoop(f.envLocks,
              ReadDir({id \in LockIds : f.envLocks[id].kind # "none"}), {})

\* State.GetEnvironmentApplicationLocks(environment, application)
GetEnvironmentApplicationLocks(f) ==
    LocksLoop(f.appLocks,
              ReadDir({id \in LockIds : f.appLocks[id].kind # "none"}), {})

\* the metadata files of a release directory
ReleaseDirs ==
    { [source_commit_id |-> m, source_author |-> m, source_message |-> m,
       display_version |-> d, undeploy |-> u, created_at |-> t] :
         m \in {Nil, Ptr("text")}, d \in {Nil, Ptr("v1")},
         u \in {Nil, Ptr("")},
         t \in {Nil} \cup {Ptr(c) : c \in TimeContents} }

\* type Release struct
ZeroRelease ==
    [UndeployVersion |-> FALSE, SourceAuthor |-> "", SourceCommitId |-> "",
     SourceMessage |-> "", CreatedAt |-> ZeroTime, DisplayVersion |-> ""]

\* State.GetApplicationRelease(application, version) where f.release is
\* the directory of that release (Nil when it does not exist)
GetApplicationRelease(f) ==
    IF f.release = Nil THEN [release |-> Nil, err |-> "stat"]
    ELSE LET base == f.release[1]
             r1 == IF base.source_commit_id = Nil THEN ZeroRelease
                   ELSE [ZeroRelease EXCEPT !.SourceCommitId = base.source_commit_id[1]]
             r2 == IF base.source_author = Nil THEN r1
                   ELSE [r1 EXCEPT !.SourceAuthor = base.source_author[1]]
             r3 == IF base.source_message = Nil THEN r2
                   ELSE [r2 EXCEPT !.SourceMessage = base.source_message[1]]
             r4 == IF base.display_version = Nil THEN r3
                   ELSE [r3 EXCEPT !.DisplayVersion = base.display_version[1]]
             r5 == [r4 EXCEPT !.UndeployVersion = base.undeploy # Nil]
         IN  IF base.created_at = Nil THEN [release |-> Ptr(r5), err |-> "nil"]
             ELSE LET t == ParseTime(RFC3339, base.created_at[1])
                  IN  IF t.err # "nil" THEN [release |-> Nil, err |-> t.err]
                      ELSE [release |-> Ptr([r5 EXCEPT !.CreatedAt = t.time]),
                            err |-> "nil"]

\* the deployment metadata files of an (environment, application) slot
DeploymentDirs ==
    { [deployed_by |-> a, deployed_at_utc |-> t] :
         a \in {Nil, Ptr("text")},
         t \in {Nil} \cup {Ptr(c) : c \in TimeContents} }

\* State.GetDeploymentMetaData(ctx, environment, application)
GetDeploymentMetaData(f) ==
    LET base == f.deployment
    IN  IF base.deployed_by = Nil
        THEN [author |-> "", time |-> ZeroTime, err |-> "nil"]
        ELSE IF base.deployed_at_utc = Nil
        THEN [author |-> base.deployed_by[1], time |-> ZeroTime, err |-> "nil"]
        ELSE LET t == ParseTime(DeployedAtLayout, base.deployed_at_utc[1])
             IN  IF t.err # "nil"
                 THEN [author |-> "", time |-> ZeroTime, err |-> t.err]
                 ELSE [author |-> base.deployed_by[1], time |-> t.time,
                       err |-> "nil"]

\* The environments and the applications there are.
Envs == {"dev", "prod"}
Apps == { <<"a">>, <<"b">> }

\* A JSON file is broken or holds a value; of an EnvironmentConfig only
\* whether it has an ArgoCd section matters here.
BrokenJson == [json |-> "broken"]
EnvironmentConfigs == [ArgoCd : BOOLEAN]
ZeroConfig == [ArgoCd |-> FALSE]
ConfigFiles ==
    {Nil, Ptr(BrokenJson)} \cup
    {Ptr([json |-> "ok", value |-> c]) : c \in EnvironmentConfigs}

\* State.GetEnvironmentConfigs(): the map (a function on the environment
\* names) and the error.  In bootstrap mode f.configsFile is the file at
\* EnvironmentConfigsPath, else f.envs[env].config is
\* environments/<env>/config.json.
GetEnvironmentConfigs(f) ==
    IF f.bootstrap
    THEN IF f.configsFile = Nil THEN [res |-> Ptr(<<>>), err |-> "nil"]
         ELSE IF f.configsFile[1].json = "broken"
         THEN [res |-> Nil, err |-> "jsonSyntax"]
         ELSE [res |-> Ptr(f.configsFile[1].value), err |-> "nil"]
    ELSE IF \E env \in Envs : /\ f.envs[env].config # Nil
                              /\ f.envs[env].config[1].json = "broken"
         THEN [res |-> Nil, err |-> "invalidJson"]
         ELSE [res |-> Ptr([env \in Envs |->
                              IF f.envs[env].config = Nil THEN ZeroConfig
                              ELSE f.envs[env].config[1].value]),
               err |-> "nil"]

\* sort.Strings
RECURSIVE SortStrings(_)
SortStrings(names) ==
    IF names = <<>> THEN <<>>
    ELSE LET i == CHOOSE i \in DOMAIN names :
                    \A j \in DOMAIN names :
                       names[i] = names[j] \/ NameLess(names[i], names[j])
         IN  <<names[i]>> \o
             SortStrings(SubSeq(names, 1, i - 1) \o
                         SubSeq(names, i + 1, Len(names)))

\* State.GetEnvironmentApplications(environment): the names under
\* environments/<env>/applications
GetEnvironmentApplications(f, env) ==
    ReadDir({app \in Apps : f.envs[env].apps[app] # Nil})

\* the (environment, application) slot as State.readSymlink reads it
Slot(f, env, app) ==
    [version |-> f.envs[env].apps[app][1], queued_version |-> NoLink,
     releases |-> f.releases]

\* a loop that also lists the applications without a version
RECURSIVE AppData_ListsAll(_, _, _)
AppData_ListsAll(f, env, apps) ==
    IF apps = <<>> THEN [appData |-> <<>>, err |-> "nil"]
    ELSE LET rest == AppData_ListsAll(f, env, Tail(apps))
         IN  [appData |-> <<Head(apps)>> \o rest.appData, err |-> "nil"]

\* the loop of updateArgoCdApps over the sorted application names
RECURSIVE AppData(_, _, _)
AppData(f, env, apps) ==
    IF apps = <<>> THEN [appData |-> <<>>, err |-> "nil"]
    ELSE LET appName == Head(apps)
             version == GetEnvironmentApplicationVersion(Slot(f, env, appName))
             rest    == AppData(f, env, Tail(apps))
         IN  IF version.err = "stat" THEN rest
             ELSE IF version.err # "nil" THEN [appData |-> <<>>, err |-> version.err]
             ELSE IF version.res = Nil \/ version.res[1] = 0 THEN rest
             ELSE IF rest.err # "nil" THEN rest
             ELSE [appData |-> <<appName>> \o rest.appData, err |-> "nil"]

\* argocd.Render: the manifest of apiVersion v1alpha1 names the
\* applications of appData in their order
Render(appData) == appData

\* repository.updateArgoCdApps(ctx, state, env, config)
updateArgoCdApps(f, env) ==
    LET apps == SortStrings(GetEnvironmentApplications(f, env))
        d    == AppData(f, env, apps)
    IN  IF d.err # "nil" THEN [err |-> d.err, fs |-> f]
        ELSE [err |-> "nil",
              fs  |-> [f EXCEPT !.argocd[env] = Ptr(Render(d.appData))]]

\* the loop of afterTransform over the environments todo
RECURSIVE AfterTransformLoop(_, _, _)
AfterTransformLoop(f, configs, todo) ==
    IF todo = {} THEN [err |-> "nil", fs |-> f]
    ELSE LET env == CHOOSE env \in todo : TRUE
             u   == IF configs[env].ArgoCd THEN updateArgoCdApps(f, env)
                    ELSE [err |-> "nil", fs |-> f]
         IN  IF u.err # "nil" THEN u
             ELSE AfterTransformLoop(u.fs, configs, todo \ {env})

\* repository.afterTransform(ctx, state): the error and the staged
\* filesystem afterwards (on an error ApplyTransformers drops the State)
afterTransform(f) ==
    LET configs == GetEnvironmentConfigs(f)
    IN  IF configs.err # "nil" THEN [err |-> configs.err, fs |-> f]
        ELSE LET a == AfterTransformLoop(f, configs.res[1],
                                         DOMAIN configs.res[1])
             IN  IF a.err # "nil" THEN [err |-> a.err, fs |-> f] ELSE a

\* a Filesystem in which nothing is there
EmptyFs ==
    [releases |-> {}, version |-> NoLink, queued_version |-> NoLink,
     envLocks |-> NoLocks, appLocks |-> NoLocks,
     release |-> Nil,
     deployment |-> [deployed_by |-> Nil, deployed_at_utc |-> Nil],
     bootstrap |-> FALSE, configsFile |-> Nil,
     envs |-> [env \in Envs |->
                 [config |-> Nil, apps |-> [app \in Apps |-> Nil]]],
     argocd |-> [env \in Envs |-> Nil]]

\* the version links there are in environments/<env>/applications/<app>
\* (Nil: the directory of the application is not there)
AppLinks == {Nil} \cup {Ptr(l) : l \in {NoLink, <<"1">>, <<"2">>, <<"x">>}}

\* no accessor has been called; the writer rests
InitView ==
    /\ InitRepository
    /\ localHead = NoCommit /\ ~argoUrl
    /\ queue = <<>>
    /\ ts = [e \in Elems |-> <<>>]
    /\ caller = [e \in Elems |-> "none"]
    /\ call = NoCall
    /\ config = New(NoGcConfig)
    /\ users = [e \in Elems |-> Ptr("u1")]
    /\ InitServers

\* the trees a State is opened at: releases and the links of a slot; or
\* the locks of an environment or of an application; or the metadata of a
\* release or of a deployment
InitState ==
    /\ InitView
    /\ \/ \E r \in SUBSET Names, v \in Links, q \in Links :
            fs = [EmptyFs EXCEPT !.releases = r, !.version = v,
                                 !.queued_version = q]
       \/ \E l \in [LockIds -> LockEntries] :
            fs = [EmptyFs EXCEPT !.envLocks = l]
       \/ \E l \in [LockIds -> LockEntries] :
            fs = [EmptyFs EXCEPT !.appLocks = l]
       \/ \E r \in ReleaseDirs : fs = [EmptyFs EXCEPT !.release = Ptr(r)]
       \/ \E d \in DeploymentDirs : fs = [EmptyFs EXCEPT !.deployment = d]

\* the trees a State is opened at: the applications of the environments
\* with their version links, and the environment configs, read in
\* bootstrap mode from one file and else from the config.json files
InitConfigs ==
    /\ InitView
    /\ \E a \in [Envs -> [Apps -> AppLinks]] :
         \/ \E c \in {Nil, Ptr(BrokenJson)} \cup
                     {Ptr([json |-> "ok", value |-> m]) :
                        m \in [Envs -> EnvironmentConfigs]} :
              fs = [EmptyFs EXCEPT
                      !.releases = { <<"1">>, <<"x">> },
                      !.bootstrap = TRUE, !.configsFile = c,
                      !.envs = [env \in Envs |->
                                  [config |-> Nil, apps |-> a[env]]]]
         \/ \E c \in [Envs -> ConfigFiles] :
              fs = [EmptyFs EXCEPT
                      !.releases = { <<"1">>, <<"x">> },
                      !.envs = [env \in Envs |->
                                  [config |-> c[env], apps |-> a[env]]]]

\* a call of an accessor that only reads
CallReleases ==
    /\ call' = [op |-> "Releases", arg |-> "", ret |-> Releases(fs)]
    /\ UNCHANGED <<fs, writerVars>>

CallGetApplicationReleases ==
    /\ call' = [op |-> "GetApplicationReleases", arg |-> "",
                ret |-> GetApplicationReleases(fs)]
    /\ UNCHANGED <<fs, writerVars>>

CallReadSymlink ==
    \E symlinkName \in LinkNames :
        /\ call' = [op |-> "readSymlink", arg |-> symlinkName,
                    ret |-> readSymlink(fs, symlinkName)]
        /\ UNCHANGED <<fs, writerVars>>

CallReadLock ==
    \E id \in LockIds :
        /\ fs.envLocks[id].kind = "dir"
        /\ call' = [op |-> "readLock", arg |-> id,
                    ret |-> readLock(fs.envLocks[id])]
        /\ UNCHANGED <<fs, writerVars>>

CallGetEnvironmentLocks ==
    /\ call' = [op |-> "GetEnvironmentLocks", arg |-> "",
                ret |-> GetEnvironmentLocks(fs)]
    /\ UNCHANGED <<fs, writerVars>>

CallGetEnvironmentApplicationLocks ==
    /\ call' = [op |-> "GetEnvironmentApplicationLocks", arg |-> "",
                ret |-> GetEnvironmentApplicationLocks(fs)]
    /\ UNCHANGED <<fs, writerVars>>

CallGetApplicationRelease ==
    /\ call' = [op |-> "GetApplicationRelease", arg |-> "",
                ret |-> GetApplicationRelease(fs)]
    /\ UNCHANGED <<fs, writerVars>>

CallGetDeploymentMetaData ==
    /\ call' = [op |-> "GetDeploymentMetaData", arg |-> "",
                ret |-> GetDeploymentMetaData(fs)]
    /\ UNCHANGED <<fs, writerVars>>

CallGetEnvironmentConfigs ==
    /\ call' = [op |-> "GetEnvironmentConfigs", arg |-> "",
                ret |-> GetEnvironmentConfigs(fs)]
    /\ UNCHANGED <<fs, writerVars>>

\* a call of State.ProcessQueue or of afterTransform, which write
CallProcessQueue ==
    LET p == ProcessQueue(fs)
    IN  /\ call' = [op |-> "ProcessQueue", arg |-> fs,
                    ret |-> [msg |-> p.msg, err |-> p.err]]
        /\ fs' = p.fs
        /\ UNCHANGED writerVars

CallAfterTransform ==
    LET a == afterTransform(fs)
    IN  /\ call' = [op |-> "afterTransform", arg |-> fs, ret |-> a.err]
        /\ fs' = a.fs
        /\ UNCHANGED writerVars

NextState ==
    \/ CallReleases \/ CallGetApplicationReleases \/ CallReadSymlink
    \/ CallProcessQueue
    \/ CallReadLock \/ CallGetEnvironmentLocks
    \/ CallGetEnvironmentApplicationLocks
    \/ CallGetApplicationRelease \/ CallGetDeploymentMetaData

SpecState == InitState /\ [][NextState]_vars

NextConfigs == CallGetEnvironmentConfigs \/ CallAfterTransform

SpecConfigs == InitConfigs /\ [][NextConfigs]_vars

\* ---------------------------------------------------------------------
\* The frontend-service and the health server. They run in processes of
\* their own: in their specifications the repository is left untouched.

repositoryVars == <<queue, closed, wctx, ts, ectx, chan, caller, commits,
                    localHead, origin, remoteHead, argoUrl, w, sent, ran,
                    pickedDone, commitOf, it, fs, call, writesDone, deferred,
                    config, users>>

NoRepository ==
    /\ InitRepository
    /\ localHead = NoCommit /\ ~argoUrl
    /\ queue = <<>>
    /\ ts = [e \in Elems |-> <<>>]
    /\ caller = [e \in Elems |-> "none"]
    /\ fs = NoFs /\ call = NoCall
    /\ config = New(NoGcConfig)
    /\ users = [e \in Elems |-> Ptr("u1")]

\* the most actions a BatchRequest holds
MaxActions == 3

\* BatchAction.Action, a oneof: unset, or one of the actions of the api
ActionTypes == {"nil", "CreateRelease", "Deploy", "CreateEnvironmentLock"}

\* BatchRequest.Actions
BatchRequests == UNION {[1..n -> ActionTypes] : n \in 0..MaxActions}

\* what BatchClient.ProcessBatch returns: a response or the error of the
\* cd-service
BatchClientErrors == {"nil", "cdError"}

\* GrpcProxy.ProcessBatch, looking at the first action only
ProcessBatch_FirstActionOnly ==
    /\ proxyOut.pc = "none"
    /\ IF proxyIn # <<>> /\ proxyIn[1] = "CreateRelease"
       THEN proxyOut' = [pc |-> "done", forwarded |-> Nil, err |-> "public"]
       ELSE \E err \in BatchClientErrors :
               proxyOut' = [pc |-> "done", forwarded |-> Ptr(proxyIn),
                            err |-> err]
    /\ UNCHANGED <<proxyIn, authVars, healthVars, repositoryVars>>

\* GrpcProxy.ProcessBatch: the loop returns a public error at the first
\* create-release action; a request without one is handed to the
\* BatchClient as it came
ProcessBatch ==
    /\ proxyOut.pc = "none"
    /\ IF \E i \in 1..Len(proxyIn) : proxyIn[i] = "CreateRelease"
       THEN proxyOut' = [pc |-> "done", forwarded |-> Nil, err |-> "public"]
       ELSE \E err \in BatchClientErrors :
               proxyOut' = [pc |-> "done", forwarded |-> Ptr(proxyIn),
                            err |-> err]
    /\ UNCHANGED <<proxyIn, authVars, healthVars, repositoryVars>>

InitProxy ==
    /\ NoRepository /\ IdleAuth /\ IdleHealth
    /\ proxyIn \in BatchRequests
    /\ proxyOut = NoBatch

NextProxy == ProcessBatch

SpecProxy == InitProxy /\ [][NextProxy]_vars

\* the names, e-mail addresses and roles of the model
Strings == {"", "u1", "u1@x", "kuberpult", "kuberpult@x"}

\* Encode64, Decode64: base64.StdEncoding on the strings of the model; a
\* value that is no base64 text does not decode
Base64 ==
    [s \in Strings |->
        CASE s = ""            -> ""
          [] s = "u1"          -> "dTE="
          [] s = "u1@x"        -> "dTFAeA=="
          [] s = "kuberpult"   -> "a3ViZXJwdWx0"
          [] s = "kuberpult@x" -> "a3ViZXJwdWx0QHg="]
Encode64(s) == Base64[s]
Decode64(t) ==
    IF \E s \in Strings : Base64[s] = t
    THEN [s |-> CHOOSE s \in Strings : Base64[s] = t, err |-> "nil"]
    ELSE [s |-> "", err |-> "corrupt"]

\* the values a header of a request can hold
HeaderValues == {Base64[s] : s \in {"", "u1", "u1@x"}} \cup {"?"}

\* User values, and *User
User(email, name) == [Email |-> email, Name |-> name, DexAuthContext |-> Nil]
Users == [Email : Strings, Name : Strings, DexAuthContext : {Nil}]

\* ReadUserFromHttpHeader
ReadUserFromHttpHeader(r) ==
    LET headerEmail == Decode64(r.authorEmail)
        headerName  == Decode64(r.authorName)
        headerRole  == Decode64(r.authorRole)
    IN  IF headerEmail.err # "nil" \/ headerName.err # "nil"
           \/ headerRole.err # "nil"
        THEN [user |-> Nil, err |-> "auth"]
        ELSE IF headerName.s # "" /\ headerEmail.s # ""
        THEN [user |-> Ptr([Email |-> headerEmail.s, Name |-> headerName.s,
                            DexAuthContext |-> Ptr(headerRole.s)]),
              err |-> "nil"]
        ELSE [user |-> Nil, err |-> "auth"]

\* getRequestAuthorFromGoogleIAP: the e-mail claim of a validated token;
\* the type assertion panics when the claim is no string
getRequestAuthorFromGoogleIAP(cfg, r) ==
    IF r.iapJWT = "" THEN [user |-> Nil, err |-> "nil"]
    ELSE IF cfg.GKEProjectNumber = "" \/ cfg.GKEBackendServiceID = ""
    THEN [user |-> Nil, err |-> "nil"]
    ELSE IF r.iapJWT # "valid" THEN [user |-> Nil, err |-> "nil"]
    ELSE IF r.email = Nil THEN [user |-> Nil, err |-> "panic"]
    ELSE [user |-> Ptr(User(r.email[1], "")), err |-> "nil"]

\* GetUserOrDefault, leaving an empty name empty
GetUserOrDefault_KeepsEmptyName(u, defaultUser) ==
    IF u # Nil /\ u[1].Email # ""
    THEN User(u[1].Email, u[1].Name)
    ELSE User(defaultUser.Email, defaultUser.Name)

\* GetUserOrDefault
GetUserOrDefault(u, defaultUser) ==
    IF u # Nil /\ u[1].Email # ""
    THEN User(u[1].Email, IF u[1].Name = "" THEN u[1].Email ELSE u[1].Name)
    ELSE User(defaultUser.Email, defaultUser.Name)

\* runServer: the configuration is read; without a default author the
\* process exits, otherwise the Auth handler is set up with it
runServer ==
    /\ server.pc = "starting"
    /\ IF frontendConfig.GitAuthorEmail = "" \/ frontendConfig.GitAuthorName = ""
       THEN server' = [server EXCEPT !.pc = "fatal"]
       ELSE server' = [pc |-> "serving",
                       DefaultUser |-> User(frontendConfig.GitAuthorEmail,
                                            frontendConfig.GitAuthorName)]
    /\ UNCHANGED <<frontendConfig, httpIn, httpOut, proxyVars, healthVars,
                   repositoryVars>>

\* Auth.ServeHTTP: the user of the request, from the headers with Azure
\* and from the IAP token without; the combined user is written to the
\* headers of the request, to its context and to the outgoing grpc
\* metadata, and the request is passed on
ServeHTTP ==
    /\ server.pc = "serving" /\ httpOut.pc = "none"
    /\ LET read == IF frontendConfig.AzureEnableAuth
                   THEN ReadUserFromHttpHeader(httpIn)
                   ELSE getRequestAuthorFromGoogleIAP(frontendConfig, httpIn)
           combinedUser == GetUserOrDefault(read.user, server.DefaultUser)
       IN  IF read.err # "nil"
           THEN httpOut' = [httpOut EXCEPT !.pc = "failed", !.err = read.err]
           ELSE httpOut' = [pc |-> "forwarded",
                            authorName  |-> Encode64(combinedUser.Name),
                            authorEmail |-> Encode64(combinedUser.Email),
                            user |-> Ptr(combinedUser),
                            md |-> <<Encode64(combinedUser.Email),
                                     Encode64(combinedUser.Name)>>,
                            err |-> "nil"]
    /\ UNCHANGED <<frontendConfig, server, httpIn, proxyVars, healthVars,
                   repositoryVars>>

\* the requests: the author headers, and the IAP token (absent, invalid
\* or valid) with the e-mail claim of a valid one (Nil: no string)
Requests ==
    {r \in [authorName : HeaderValues, authorEmail : HeaderValues,
            authorRole : {"", "?"}, iapJWT : {"", "invalid", "valid"},
            email : {Nil, Ptr(""), Ptr("u1@x")}] :
        r.iapJWT # "valid" => r.email = Nil}

FrontendConfigs ==
    [GitAuthorEmail : {"", "kuberpult@x"}, GitAuthorName : {"", "kuberpult"},
     AzureEnableAuth : BOOLEAN, GKEProjectNumber : {"", "u1"},
     GKEBackendServiceID : {"", "u1"}]

InitAuth ==
    /\ NoRepository /\ IdleProxy /\ IdleHealth
    /\ frontendConfig \in FrontendConfigs
    /\ server = [NoServer EXCEPT !.pc = "starting"]
    /\ httpIn \in Requests
    /\ httpOut = NoForward

NextAuth == runServer \/ ServeHTTP

SpecAuth == InitAuth /\ [][NextAuth]_vars

\* Health
HealthStarting == 0
HealthReady    == 1
HealthFailed   == 2
Healths == {HealthStarting, HealthReady, HealthFailed}

\* http.StatusOK, http.StatusInternalServerError
StatusOK == 200
StatusInternalServerError == 500

\* the parts of a service, the most reports made in all, the most
\* requests to ServeHTTP
PartNames   == {"p1", "p2"}
MaxReports  == 4
MaxRequests == 2

\* the reports made so far, over all parts
RECURSIVE ReportCount(_)
ReportCount(names) ==
    IF names = {} THEN 0
    ELSE LET n == CHOOSE x \in names : TRUE
         IN  Len(reported[n]) + ReportCount(names \ {n})

\* m[k] = v, as for a Go map
Put(m, k, v) == [x \in DOMAIN m \cup {k} |-> IF x = k THEN v ELSE m[x]]

\* HealthReporter.ReportHealth under h.mx: the report replaces the one of
\* its part; h.now() is the position of the report among all reports
Report(name, health, message) ==
    LET r == [Health |-> health, Time |-> ReportCount(DOMAIN reported) + 1,
              Message |-> message]
    IN  /\ ReportCount(DOMAIN reported) < MaxReports
        /\ parts' = Put(parts, name, r)
        /\ reported' = Put(reported, name,
                           IF name \in DOMAIN reported
                           THEN Append(reported[name], r) ELSE <<r>>)

\* HealthServer.Reporter: a reporter for the part, which reports starting
Reporter(name) ==
    /\ Report(name, HealthStarting, "starting")
    /\ UNCHANGED <<healthReq, isReady, proxyVars, authVars, repositoryVars>>

\* HealthReporter.ReportHealth, of a reporter that Reporter returned
ReportHealth(name, health, message) ==
    /\ name \in DOMAIN reported
    /\ Report(name, health, message)
    /\ UNCHANGED <<healthReq, isReady, proxyVars, authVars, repositoryVars>>

\* HealthServer.IsReady under h.mx; seen is what had been reported then
IsReady(name) ==
    /\ isReady' = [op |-> "IsReady", name |-> name, seen |-> reported,
                   result |-> IF name \in DOMAIN parts
                              THEN parts[name].Health = HealthReady
                              ELSE FALSE]
    /\ UNCHANGED <<parts, reported, healthReq, proxyVars, authVars,
                   repositoryVars>>

\* HealthServer.ServeHTTP up to h.reports(): a copy of h.parts taken
\* under h.mx; seen is what had been reported then
HealthReports ==
    /\ Len(healthReq) < MaxRequests
    /\ healthReq' = Append(healthReq, [pc |-> "reports", reports |-> parts,
                                       seen |-> reported, status |-> 0])
    /\ UNCHANGED <<parts, reported, isReady, proxyVars, authVars,
                   repositoryVars>>

\* the status ServeHTTP writes for the reports it copied
HealthStatus_FailedOnly(reports) ==
    IF \A n \in DOMAIN reports : reports[n].Health # HealthFailed
    THEN StatusOK ELSE StatusInternalServerError

HealthStatus(reports) ==
    IF \A n \in DOMAIN reports : reports[n].Health = HealthReady
    THEN StatusOK ELSE StatusInternalServerError

\* HealthServer.ServeHTTP after h.reports(): the status is written
HealthServeHTTP(i) ==
    /\ healthReq[i].pc = "reports"
    /\ healthReq' = [healthReq EXCEPT ![i].pc = "done",
                                      ![i].status = HealthStatus(healthReq[i].reports)]
    /\ UNCHANGED <<parts, reported, isReady, proxyVars, authVars,
                   repositoryVars>>

InitHealth == NoRepository /\ IdleProxy /\ IdleAuth /\ IdleHealth

NextHealth ==
    \/ \E name \in PartNames : Reporter(name)
    \/ \E name \in PartNames, health \in Healths : ReportHealth(name, health, "m")
    \/ \E name \in PartNames : IsReady(name)
    \/ HealthReports
    \/ \E i \in DOMAIN healthReq : HealthServeHTTP(i)

SpecHealth == InitHealth /\ [][NextHealth]_vars

(* ------------------------------ claims --------------------------------- *)

Range(seq) == {seq[i] : i \in DOMAIN seq}

\* the elements the writer has finished with
Handled == {e \in Admitted : e \notin Range(queue) /\ e \notin Range(w.elements)}
              \cup (IF w.pc \in {"idle", "stopped"} THEN Admitted \ Range(queue) ELSE {})

\* C1: exactly one value is ever sent on the result channel of an element:
\* never two, and never zero once the writer has finished with the element.
C1_ExactlyOneResult ==
    \A e \in Elems :
      /\ Len(sent[e]) <= 1
      /\ e \in Handled => Len(sent[e]) = 1

\* C2: an element has received nil only if its commit is reachable from the
\* head of the remote branch.
C2_NilOnlyIfPushed ==
    \A e \in Elems :
      "nil" \in Range(sent[e]) =>
          /\ commitOf[e] # NoCommit
          /\ commitOf[e] \in Ancestors(remoteHead)

\* C3: in an iteration the webhook is dispatched and the notifier is
\* signalled only after a push of that iteration has moved the remote branch.
C3_NotifyOnlyAfterPush ==
    (it.hookCalls > 0 \/ it.notified > 0) => it.pushMoved

\* the writes the transformers of e stage when all of them succeed
WritesOf(e) == {<<e, k>> : k \in 1..Len(ts[e])}

\* the commits on the local or the remote branch
BranchCommits == Ancestors(localHead) \cup Ancestors(remoteHead)

\* the errors ApplyTransformers returns for an element
ApplyErrors == {"applyErr", "invalidJson", "internalCommit"}

\* C4: an element is atomic.  Every commit on the local or remote branch
\* holds all the writes of an element or none of them; the commit made for
\* an element adds exactly the writes of all its transformers; and no
\* commit on a branch holds a write of an element whose transformers or
\* commit creation failed.
C4_ElementAtomic ==
    \A e \in Admitted :
      /\ \A c \in BranchCommits :
           LET ws == commits[c].tree \cap WritesOf(e)
           IN  /\ ws = {} \/ ws = WritesOf(e)
               /\ commits[c].elem = e =>
                     commits[c].tree = TreeOf(commits[c].parent) \cup WritesOf(e)
      /\ (sent[e] # <<>> /\ sent[e][Len(sent[e])] \in ApplyErrors) =>
           \A c \in BranchCommits : commits[c].tree \cap WritesOf(e) = {}

\* C4 witness: an element whose second transformer failed after its first
\* had staged a write, next to an element whose commit is on the remote
C4_Witness ==
    \E e, f \in Admitted :
      /\ ts[e] = <<"ok", "fail">> /\ sent[e] = <<"applyErr">>
      /\ commitOf[f] # NoCommit /\ commitOf[f] \in Ancestors(remoteHead)

\* C5: in applyElements a transformer error that is not recovered by
\* fetch-and-reset is sent to the failing element alone and removes that
\* element alone; the branch is left as it was, the elements after it keep
\* their order and the loop goes on with the element that followed it.
C5_StepFailsOnlyOwnElement ==
    (w.pc = "apply" /\ (sent' # sent \/ w'.elements # w.elements)) =>
        LET e == w.elements[w.idx]
        IN  /\ w'.elements = [j \in 1..(Len(w.elements) - 1) |->
                                 IF j < w.idx THEN w.elements[j]
                                 ELSE w.elements[j + 1]]
            /\ \A f \in Elems \ {e} : sent'[f] = sent[f]
            /\ \E v \in ApplyErrors : sent'[e] = <<v>>
            /\ localHead' = localHead /\ commits' = commits
            /\ w'.pc = "apply" => w'.idx = w.idx /\ w'.allow = w.allow

\* C5: every step of the apply pass that answers an element or changes the
\* batch fails only its own element: the error goes to that element's
\* result channel alone, only that element leaves the batch, and the
\* other elements of the batch are still applied at the unchanged head.
C5_FailureIsLocal == [][C5_StepFailsOnlyOwnElement]_vars

\* C5 witness: the first of three drained elements has failed alone and the
\* loop is about to apply the element that followed it
C5_Witness ==
    /\ w.pc = "apply" /\ w.idx = 1
    /\ it.batch = <<1, 2, 3>> /\ w.elements = <<2, 3>>
    /\ sent[1] = <<"applyErr">> /\ sent[2] = <<>> /\ sent[3] = <<>>

\* C6: the commits of elements on a branch are in enqueue order (elements
\* are numbered as they are enqueued), each is made of the transformers of
\* one element in their order, and adds the writes of that element only.
C6_EnqueueOrder ==
    \A c \in BranchCommits :
      LET e == commits[c].elem
          p == commits[c].parent
      IN  e # 0 =>
            /\ commits[c].msg = Join([k \in 1..Len(ts[e]) |-> k], "\n")
            /\ commits[c].tree \ TreeOf(p) = WritesOf(e)
            /\ \A d \in Ancestors(p) : commits[d].elem # 0 => commits[d].elem < e

\* C6 witness: after a failed element was removed and the batch was
\* re-applied on the fetched head, the commits of the two survivors are on
\* the remote branch
C6_Witness ==
    /\ it.batch = <<1, 2, 3>> /\ w.elements = <<1, 3>> /\ it.resets > 0
    /\ w.pc = "idle" /\ it.pushMoved
    /\ commitOf[3] = remoteHead
    /\ commits[remoteHead].parent = commitOf[1]

\* the tree a writer produces that applies the elements of batch in order on
\* tree, dropping every element one of whose transformers fails
RECURSIVE RefTree(_, _)
RefTree(batch, tree) ==
    IF batch = <<>> THEN tree
    ELSE LET e == Head(batch)
             r == ApplyTransformersInternal(ts[e], e, tree)
         IN  RefTree(Tail(batch), IF r.err = "nil" THEN r.tree ELSE tree)

\* the elements of a batch whose commit creation has not failed
CommitOk(batch) == SelectSeq(batch, LAMBDA e : sent[e] # <<"internalCommit">>)

\* the push after non-fast-forward recovery is about to run
AtSecondPush == w.pc = "push" /\ w.pass = 2 /\ w.tries = 0

\* C7 as claimed: the tree pushed after non-fast-forward recovery is the
\* tree a writer started from the fetched remote head produces for the
\* whole drained batch.
C7_RecoveryEqualsFreshWriter ==
    AtSecondPush =>
        TreeOf(localHead) = RefTree(CommitOk(it.batch), TreeOf(it.fetched))

\* C7 amended: the tree pushed after non-fast-forward recovery is built on
\* the fetched remote head and is the tree a writer started from that head
\* produces for the elements of the drained batch that survived the first
\* apply pass; an element that failed in the first pass is not re-applied.
C7_RecoveryEqualsFreshWriterOfSurvivors ==
    AtSecondPush =>
        /\ it.fetched \in Ancestors(localHead)
        /\ TreeOf(localHead) = RefTree(CommitOk(it.survived), TreeOf(it.fetched))

\* C7 witness: two elements survived the first pass, the remote head that
\* was fetched holds the work of another writer, and the re-applied batch
\* is about to be pushed
C7_Witness ==
    /\ AtSecondPush
    /\ Len(it.survived) >= 2 /\ Len(w.elements) < Len(it.survived)
    /\ X \in TreeOf(it.fetched)

\* the commits named by the payload of the webhook
PayloadCommits == {it.payload[1].before, it.payload[1].after} \ {NoCommit}

\* C8: the webhook is dispatched at most once in an iteration, and its
\* payload names commits of the final apply pass: commits of the branch,
\* `after` being a commit made in this iteration for a surviving element.
C8_PayloadFromFinalPass ==
    /\ it.hookCalls <= 1
    /\ it.payload # Nil =>
         /\ PayloadCommits \subseteq Ancestors(localHead)
         /\ \E i \in DOMAIN w.elements :
              it.payload[1].after = commitOf[w.elements[i]]

\* C9: an element whose context was done when the writer picked it up
\* receives the context error and nothing else, none of its transformers
\* is run and no commit is made for it.
C9_CancelledAtPickup ==
    \A e \in pickedDone :
      /\ \A i \in DOMAIN sent[e] : sent[e][i] = "ctxErr"
      /\ e \notin ran
      /\ commitOf[e] = NoCommit

\* C10: when a push of the iteration has moved the remote branch, every
\* surviving element receives nil and the notifier is signalled exactly
\* once, whatever Argo CD answered.
C10_WebhookNeverFailsRequest ==
    (w.pc = "idle" /\ it.pushMoved) =>
        /\ w.elements # <<>>
        /\ \A i \in DOMAIN w.elements : sent[w.elements[i]] = <<"nil">>
        /\ it.notified = 1

\* C10 witness: Argo CD answered 5xx to all maxArgoRequests POSTs after a
\* push that moved the remote branch, and the iteration is over
C10_Witness ==
    /\ w.pc = "idle" /\ it.pushMoved
    /\ it.hookCalls = 1 /\ ~it.hookSuccess
    /\ \E e \in Admitted : caller[e] = "nil"

\* C11: whenever the push that ended the iteration's pushing (the first
\* push or the push after the reset) succeeded at the transport but the
\* update-reference callback saw the branch ref not moved, the error the
\* surviving elements get is the branch-protection error, not nil.
C11_ProtectedPushReported ==
    (w.pc \in {"postpush", "webhook", "notify", "defer"}
       /\ it.lastPush = "protected") => w.err = "protected"

\* C17: in the webhook payload of an iteration whose push moved the remote
\* branch, before is the branch head before the first commit of the pushed
\* batch (no commit if there was none) and after is the branch head that
\* was pushed, for batches of any number of elements.
C17_PayloadBeforeAfter ==
    (w.pc = "webhook" /\ it.pushMoved) =>
        /\ it.payload[1].after = localHead
        /\ it.payload[1].before = commits[commitOf[w.elements[1]]].parent

\* C19: while the local branch does not exist, an element is applied to
\* the empty State without an error from StateAt, and the first commit
\* made is a new commit without parent that holds exactly the writes of
\* its element and becomes the branch head.
C19_FirstCommitStep ==
    (w.pc = "apply" /\ w' # w /\ localHead = NoCommit) =>
        LET e == w.elements[w.idx]
        IN  /\ ts[e] = <<"ok", "ok">> =>
                  \/ localHead' # NoCommit /\ localHead'[1] = "l"
                  \/ sent'[e] = <<"internalCommit">>
            /\ (localHead' # NoCommit /\ localHead'[1] = "l") =>
                  /\ localHead' \notin DOMAIN commits
                  /\ localHead' \in DOMAIN commits'
                  /\ commits'[localHead'].parent = NoCommit
                  /\ commits'[localHead'].elem = e
                  /\ commits'[localHead'].tree =
                        {<<e, k>> : k \in 1..Len(ts[e])}

C19_EmptyRepository == [][C19_FirstCommitStep]_vars

\* C19 witness: the branch head is a commit made here without parent
C19_Witness ==
    /\ localHead # NoCommit /\ localHead[1] = "l"
    /\ commits[localHead].parent = NoCommit

\* the numbers the numeric names denote
NumberOf == (<<"1">> :> 1) @@ (<<"2">> :> 2) @@ (<<"1", "0">> :> 10)

\* C12: readSymlink (GetEnvironmentApplicationVersion, GetQueuedVersion)
\* returns nil without error when the link is missing, an error when the
\* target of the link does not exist, and else the number its target's
\* name denotes; what it returns without error names a release directory
\* that exists.
C12_ReadSymlink ==
    call.op = "readSymlink" =>
        LET lnk == fs[call.arg]
            r   == call.ret
        IN  /\ lnk = NoLink => r.res = Nil /\ r.err = "nil"
            /\ (lnk # NoLink /\ lnk \notin fs.releases) => r.err # "nil"
            /\ (lnk \in fs.releases /\ lnk \in DOMAIN NumberOf) =>
                  r.res = Ptr(NumberOf[lnk]) /\ r.err = "nil"
            /\ (r.err = "nil" /\ r.res # Nil) =>
                  \E n \in fs.releases \cap DOMAIN NumberOf :
                      NumberOf[n] = r.res[1]

\* C12 witness: the version 10 was read through a link, and a link whose
\* target is gone exists
C12_Witness ==
    /\ call.op = "readSymlink" /\ call.ret.res = Ptr(10)
    /\ \E l \in LinkNames : fs[l] # NoLink /\ fs[l] \notin fs.releases

\* C13: Releases returns exactly the numbers of the numeric entries of the
\* releases directory, in strictly ascending numeric order.
C13_ReleasesAscending ==
    call.op = "Releases" =>
        LET r == call.ret
        IN  /\ Range(r) = {NumberOf[n] : n \in fs.releases \cap DOMAIN NumberOf}
            /\ \A i, j \in DOMAIN r : i < j => r[i] < r[j]

\* C14: GetEnvironmentLocks and GetEnvironmentApplicationLocks return an
\* error and no map when a child of the locks directory is not a
\* directory, wherever it stands; an error never comes with a map, and
\* a map holds a lock for every child.
C14_LooseFileInLocks ==
    call.op \in {"GetEnvironmentLocks", "GetEnvironmentApplicationLocks"} =>
        LET dir == IF call.op = "GetEnvironmentLocks" THEN fs.envLocks
                   ELSE fs.appLocks
            r   == call.ret
        IN  /\ (\E id \in LockIds : dir[id].kind = "file") =>
                  r.err # "nil" /\ r.res = Nil
            /\ r.err # "nil" => r.res = Nil
            /\ r.err = "nil" =>
                  /\ r.res # Nil
                  /\ {p[1] : p \in r.res[1]} =
                        {id \in LockIds : dir[id].kind = "dir"}

\* C14 witness: the loose file is the last entry, after two lock
\* directories that read well
C14_Witness ==
    /\ call.op = "GetEnvironmentLocks"
    /\ fs.envLocks[<<"2">>].kind = "file"
    /\ \A id \in { <<"1">>, <<"1", "0">> } :
          /\ fs.envLocks[id].kind = "dir"
          /\ fs.envLocks[id].created_at # Ptr("yesterday")
    /\ call.ret.err = "foundFile"

\* C15: in bootstrap mode GetEnvironmentConfigs returns an empty map
\* without error when the configs file is absent, and the invalid-JSON
\* error that applyElements recognises when the file is malformed.
C15_BootstrapConfigs ==
    (call.op = "GetEnvironmentConfigs" /\ fs.bootstrap) =>
        /\ fs.configsFile = Nil =>
              call.ret.res = Ptr(<<>>) /\ call.ret.err = "nil"
        /\ fs.configsFile = Ptr(BrokenJson) => call.ret.err = "invalidJson"

\* the configs of the environments whose config has an Argo CD section
HasArgoCd(env) ==
    IF fs.bootstrap
    THEN /\ fs.configsFile # Nil
         /\ fs.configsFile[1].json = "ok"
         /\ fs.configsFile[1].value[env].ArgoCd
    ELSE /\ fs.envs[env].config # Nil
         /\ fs.envs[env].config[1].json = "ok"
         /\ fs.envs[env].config[1].value.ArgoCd

\* the application has a version link to a release that exists
Deployed(env, app) ==
    /\ fs.envs[env].apps[app] # Nil
    /\ fs.envs[env].apps[app][1] \in fs.releases \cap DOMAIN NumberOf

\* C16: after a successful afterTransform the rendered manifest of every
\* environment with an Argo CD section lists exactly the applications
\* that have a deployed version in that environment, in sorted order.
C16_ArgoCdAppsRendered ==
    (call.op = "afterTransform" /\ call.ret = "nil") =>
        \A env \in Envs :
            HasArgoCd(env) =>
                /\ fs.argocd[env] # Nil
                /\ LET apps == fs.argocd[env][1]
                   IN  /\ Range(apps) = {app \in Apps : Deployed(env, app)}
                       /\ \A i, j \in DOMAIN apps :
                             i < j => NameLess(apps[i], apps[j])

\* C16 witness: an environment with an Argo CD section in which one
\* application is deployed and the other has no version link
C16_Witness ==
    /\ call.op = "afterTransform" /\ call.ret = "nil"
    /\ HasArgoCd("dev")
    /\ fs.envs["dev"].apps[<<"a">>] = Ptr(NoLink)
    /\ fs.argocd["dev"] = Ptr(<< <<"b">> >>)

\* C18: State.ProcessQueue removes the queued_version link and returns a
\* message exactly when a queued version and a deployed version exist and
\* are equal; in every other case it returns no message and leaves the
\* filesystem as it was.
C18_ProcessQueue ==
    call.op = "ProcessQueue" =>
        LET before == call.arg
            exists(l) == before[l] \in before.releases \cap DOMAIN NumberOf
            equal == /\ exists("queued_version") /\ exists("version")
                     /\ NumberOf[before.queued_version] = NumberOf[before.version]
        IN  IF equal
            THEN /\ call.ret.msg # ""
                 /\ fs = [before EXCEPT !.queued_version = NoLink]
            ELSE /\ call.ret.msg = ""
                 /\ fs = before

\* C18 witness: a queued version equal to the deployed one was removed
C18_Witness ==
    /\ call.op = "ProcessQueue" /\ call.ret.msg # ""
    /\ call.arg.queued_version # NoLink /\ fs.queued_version = NoLink

\* the content parses as a time of the layout
ValidTime(layout, file) ==
    \/ layout = RFC3339 /\ file = Ptr("2024-05-06T07:08:09Z")
    \/ layout = DeployedAtLayout /\ file = Ptr("2024-05-06 07:08:09 +0000 UTC")

\* C20: in readLock, GetApplicationRelease and GetDeploymentMetaData a
\* missing metadata file gives the zero value of its field and no error;
\* a created_at or deployed_at_utc file that is there and does not parse
\* as a time gives an error and no result.
C20_MetadataReads ==
    /\ call.op = "readLock" =>
          LET d == fs.envLocks[call.arg]
          IN  IF d.created_at # Nil /\ ~ValidTime(RFC3339, d.created_at)
              THEN call.ret.err # "nil" /\ call.ret.lock = Nil
              ELSE /\ call.ret.err = "nil"
                   /\ d.message = Nil => call.ret.lock[1].Message = ""
                   /\ d.created_by_name = Nil => call.ret.lock[1].Name = ""
                   /\ d.created_by_email = Nil => call.ret.lock[1].Email = ""
                   /\ d.created_at = Nil => call.ret.lock[1].CreatedAt = ZeroTime
    /\ (call.op = "GetApplicationRelease" /\ fs.release # Nil) =>
          LET d == fs.release[1]
          IN  IF d.created_at # Nil /\ ~ValidTime(RFC3339, d.created_at)
              THEN call.ret.err # "nil" /\ call.ret.release = Nil
              ELSE /\ call.ret.err = "nil"
                   /\ d.source_author = Nil => call.ret.release[1].SourceAuthor = ""
                   /\ d.display_version = Nil => call.ret.release[1].DisplayVersion = ""
                   /\ d.undeploy = Nil => ~call.ret.release[1].UndeployVersion
                   /\ d.created_at = Nil => call.ret.release[1].CreatedAt = ZeroTime
    /\ call.op = "GetDeploymentMetaData" =>
          LET d == fs.deployment
          IN  IF /\ d.deployed_at_utc # Nil
                 /\ ~ValidTime(DeployedAtLayout, d.deployed_at_utc)
              THEN call.ret.err # "nil"
              ELSE /\ call.ret.err = "nil"
                   /\ d.deployed_by = Nil => call.ret.author = ""
                   /\ d.deployed_at_utc = Nil => call.ret.time = ZeroTime

\* C21: the writer makes progress: every element that waits in the queue
\* eventually receives a result, and the writer, once it sends the results
\* of an iteration, gets back to receiving from the queue.
C21_WriterProgress ==
    /\ \A e \in Elems : (e \in Range(queue)) ~> (sent[e] # <<>>)
    /\ (w.pc = "defer") ~> (w.pc = "idle")

C22_State ==
    /\ it.pushCalls <= 2
    /\ w.pc = "reset" =>
          w.pass = 1 /\ it.pushCalls = 1 /\ it.lastPush = "nff"
    /\ w.pass = 2 => ~w.allow /\ it.resets >= 1
    /\ (w.pc = "idle" /\ it.pushCalls = 2
          /\ it.lastPush \notin {"moved", "protected"}) =>
          \A e \in Range(w.elements) : sent[e] = <<"internalPush">>

C22_Step ==
    /\ (w.pc = "push" /\ w.pass = 1 /\ w'.pc # "push") =>
          (w'.pc = "reset" <=> it'.lastPush = "nff")
    /\ (w.pc = "reset" /\ w' # w) =>
          /\ it'.resets = it.resets + 1
          /\ w'.pc = "apply" =>
                w'.pass = 2 /\ ~w'.allow /\ w'.elements = w.elements
    /\ (w.pc = "apply" /\ w.pass = 2 /\ w'.pc # "apply") =>
          /\ it'.resets = it.resets
          /\ w'.elements # <<>> => w'.pc = "push"
    /\ (w.pc = "push" /\ w.pass = 2 /\ w'.pc # "push") =>
          /\ w'.pc = "postpush"
          /\ it'.lastPush \notin {"moved", "protected"} =>
                w'.err = "internalPush"

\* C22: after a non-fast-forward first push the writer resets once,
\* re-applies the surviving elements with recovery disabled and calls Push
\* once more; when that push fails, also with non-fast-forward, the
\* surviving elements get an internal error, and there is no third push
\* and no further reset in the iteration.
C22_OneRecovery == []C22_State /\ [][C22_Step]_vars

\* C22 witness: the push after the reset was rejected as non-fast-forward
\* again and the surviving elements have got the internal error
C22_Witness ==
    /\ w.pc = "idle" /\ it.pushCalls = 2 /\ it.lastPush = "nff"
    /\ w.elements # <<>>
    /\ \A e \in Range(w.elements) : sent[e] = <<"internalPush">>

\* the error ApplyTransformers returns for the element the apply pass is at
ApplyErrAt ==
    ApplyTransformers(ts[w.elements[w.idx]], w.elements[w.idx], localHead, TRUE).err

C23_Step ==
    /\ (w.pc = "apply" /\ w' # w /\ ApplyErrAt = "invalidJson" /\ w.allow) =>
          /\ it'.resets = it.resets + 1
          /\ sent' = sent
          /\ \/ /\ w'.pc = "apply" /\ w'.idx = 1 /\ ~w'.allow
                /\ w'.elements = w.elements
                /\ origin' # NoCommit /\ localHead' = origin'
             \/ /\ w'.pc = "defer" /\ w'.pending = w.elements
                /\ w'.err \in {"internalFetch", "lookupErr"}
                /\ it'.pushCalls = 0
    /\ (w.pc = "apply" /\ w' # w /\ ApplyErrAt = "invalidJson" /\ ~w.allow) =>
          /\ it'.resets = it.resets
          /\ sent' = [sent EXCEPT ![w.elements[w.idx]] = <<"invalidJson">>]
          /\ Range(w'.elements) = Range(w.elements) \ {w.elements[w.idx]}
    /\ (w.pc = "apply" /\ w' # w /\ ApplyErrAt # "invalidJson") =>
          it'.resets = it.resets
    /\ (w.pc = "defer" /\ w' # w /\ it.pushCalls = 0) =>
          /\ sent'[Head(w.pending)] = <<w.err>>
          /\ it'.pushCalls = 0

\* C23: with recovery allowed the first invalid-JSON error aborts the apply
\* pass, causes one fetch-and-reset and restarts the pass at the first
\* element still in the batch with recovery disabled; recovery is allowed
\* only while no reset has been made, and an invalid-JSON error in the
\* restarted pass fails only its element.  When the fetch-and-reset fails,
\* the elements still in the batch get its error and nothing is pushed.
C23_InvalidJsonRecovery ==
    [](w.allow => it.resets = 0 /\ w.pass = 1) /\ [][C23_Step]_vars

\* C23 witness: the pass restarted after an invalid-JSON reset has failed
\* an element with the invalid-JSON error and goes on
C23_Witness ==
    /\ w.pc = "apply" /\ w.pass = 1 /\ ~w.allow /\ it.resets = 1
    /\ \E e \in Elems : sent[e] = <<"invalidJson">>

\* the first Push of the iteration has returned an error other than
\* non-fast-forward
FirstPushFailed == it.pushCalls = 1 /\ it.lastPush \in {"denied", "ctx"}

C24_State ==
    FirstPushFailed =>
       /\ w.pc \in {"postpush", "webhook", "notify", "defer", "idle"}
       /\ w.err = IF it.lastPush = "ctx" THEN "cancelled" ELSE "public"
       /\ w.pc = "idle" =>
             \A e \in Range(w.elements) : sent[e] = <<w.err>>

C24_Step ==
    FirstPushFailed =>
       /\ it'.pushCalls = 0 \/ it'.pushCalls = 1
       /\ it'.resets = it.resets \/ it' = NewIteration

\* C24: when the first push fails with an error other than
\* non-fast-forward, every surviving element gets the same error, a
\* cancelled error for context.Canceled or context.DeadlineExceeded and a
\* public error about missing write access otherwise, and the iteration
\* makes no fetch-and-reset and no second push afterwards.
C24_FirstPushError == []C24_State /\ [][C24_Step]_vars

\* C24 witness: the first push timed out and the surviving elements have
\* got the cancelled error
C24_Witness ==
    /\ w.pc = "idle" /\ it.pushCalls = 1 /\ it.lastPush = "ctx"
    /\ w.elements # <<>>
    /\ \A e \in Range(w.elements) : sent[e] = <<"cancelled">>

C25_Step ==
    (w.pc = "push" /\ w' # w) =>
       /\ w.tries <= MaxRetries
       /\ it'.action = "nff" =>
             /\ w'.pc # "push" /\ it'.lastPush = "nff"
             /\ IF w.pass = 1 THEN w'.pc = "reset" ELSE w'.err = "internalPush"
       /\ it'.action = "nil" =>
             /\ w'.pc = "postpush" /\ it'.lastPush \in {"moved", "protected"}
             /\ w'.err \in {"nil", "protected"}
       /\ it'.action = "err" =>
             \/ w'.pc = "push" /\ w'.tries = w.tries + 1
                /\ it'.lastPush = it.lastPush
             \/ w'.pc = "postpush" /\ it'.lastPush \in {"denied", "ctx"}
                /\ w'.err \in {"cancelled", "public", "internalPush"}

\* C25: Push stops at the first invocation of the push action that fails
\* with non-fast-forward and returns that error; after any other failure
\* it invokes the action again, at most MaxRetries times (MaxRetries + 1
\* invocations), or returns the failure; it returns nil as soon as one
\* invocation succeeds.
C25_PushRetries ==
    [](w.pc = "push" => w.tries <= MaxRetries) /\ [][C25_Step]_vars

\* C25 witness: MaxRetries invocations have failed and one more follows
C25_Witness == w.pc = "push" /\ w.tries = MaxRetries /\ it.action = "err"

C26_Step ==
    (w.pc = "webhook" /\ w' # w) =>
       /\ w.hookTry <= maxArgoRequests
       /\ \/ w'.pc = "webhook" /\ w'.hookTry = w.hookTry + 1 /\ w'.resp = "500"
          \/ w'.pc = "notify"
       /\ w'.resp \in {"200", "204", "404", "transport"} => w'.pc = "notify"

Dispatcher == Head(it.batch)

\* C27: once the context of the dispatching element is done, the webhook
\* dispatcher neither sleeps to make another attempt nor makes a further
\* POST attempt.
C27_WebhookHonoursContext ==
    [][(w.pc = "webhook" /\ ectx[Dispatcher]) =>
          /\ w'.hookTry # w.hookTry + 1
          /\ w.hookTry > 1 => w'.resp = w.resp]_vars

\* C28: git repack runs only after the Apply call it belongs to has
\* returned nil, and never while the writer loop is in an apply pass
\* (with its commits), a fetch-and-reset or a push.
C28_GcInWriter ==
    \A e \in Elems :
       deferred[e].pc = "repack" =>
          /\ caller[e] = "nil"
          /\ w.pc \notin {"apply", "push", "reset"}

C29_Step ==
    \A e \in Elems :
       /\ (deferred[e].pc = "write" /\ deferred'[e].pc = "check") =>
             writesDone' = writesDone + Len(ts[e])
       /\ (deferred[e].pc = "check" /\ deferred'[e].pc # "check") =>
             (deferred'[e].pc = "reset" <=>
                 /\ config.StorageBackend = GitBackend
                 /\ config.GcFrequency # 0
                 /\ writesDone >= config.GcFrequency)
       /\ (deferred[e].pc # "repack" /\ deferred'[e].pc = "repack") =>
             writesDone' = 0

\* C29: each Apply adds the number of its transformers to the write
\* counter; repack runs exactly when, after the increment, the backend is
\* the on-disk one, the frequency is not 0 and the counter has reached it,
\* and the counter is 0 when repack starts; the embedded backend, which
\* New also chooses when none is configured, never repacks.
C29_WriteCounter ==
    /\ [][C29_Step]_vars
    /\ [](\A e \in Elems : deferred[e].pc \in {"reset", "repack"} =>
             config.StorageBackend = GitBackend)
    /\ [](\A cfg \in RepositoryConfigs :
             cfg.StorageBackend = DefaultBackend =>
                New(cfg).StorageBackend = SqliteBackend)

C30_State ==
    /\ \A c \in LocalCommits :
         LET e == commits[c].elem
         IN  /\ commits[c].committer = Committer
             /\ users[e] # Nil /\ commits[c].author = users[e][1]
             /\ commits[c].msg = Join([k \in 1..Len(ts[e]) |-> k], "\n")
    /\ \A e \in Elems : users[e] = Nil => "nil" \notin Range(sent[e])

C30_Step ==
    (w.pc = "apply" /\ w' # w) =>
       LET e == w.elements[w.idx]
       IN  /\ commits' # commits =>
                /\ localHead' \in LocalCommits' \ LocalCommits
                /\ commits'[localHead'].elem = e
                /\ commits'[localHead'].parent = localHead
                /\ DOMAIN commits' = DOMAIN commits \cup {localHead'}
           /\ users[e] = Nil =>
                /\ commits' = commits
                /\ sent'[e] # sent[e]
                /\ sent'[e][Len(sent'[e])] # "nil"

\* C30: every commit ApplyTransformers creates has the service as
\* committer, the user of the element's context as author, the messages
\* of the element's transformers in their order joined by newlines as
\* message and the local branch head of before as only parent (none on an
\* empty branch); an element whose context has no user fails with an
\* error and gets no commit.
C30_CommitSignature == []C30_State /\ [][C30_Step]_vars

\* C30 witness: a commit was made on top of another commit made here, and
\* an element without user has got the error of the lookup
C30_Witness ==
    /\ \E c \in LocalCommits :
         /\ commits[c].parent \in LocalCommits
         /\ commits[c].author # commits[commits[c].parent].author
    /\ \E e \in Elems : users[e] = Nil /\ sent[e] = <<"internalUser">>

\* C31: a FetchAndReset made while the branch does not exist on the remote
\* (and was never fetched) does not fail for that reason and leaves the
\* local branch where it is.
C31_MissingRemoteBranch ==
    [][(it'.resets = it.resets + 1 /\ remoteHead = NoCommit
          /\ origin = NoCommit) =>
          /\ w'.err # "lookupErr"
          /\ localHead' = localHead]_vars

\* the commits on the local branch made for elements of the batch of this
\* iteration
IterationCommits ==
    {c \in Ancestors(localHead) : commits[c].elem \in Range(it.batch)}

\* C32 as stated: when the apply pass has ended with surviving elements,
\* the iteration has added exactly one commit to the branch.
C32_OneCommitPerBatch ==
    (w.pc = "push" /\ w.tries = 0) => Cardinality(IterationCommits) = 1

\* C32 amended: the elements drained into one batch are coalesced into one
\* push: when the apply pass has ended with k >= 1 surviving elements, the
\* iteration has added exactly k commits to the branch, one for each
\* surviving element, and each apply pass is followed by one call of Push.
C32_OneCommitPerElement ==
    /\ (w.pc = "push" /\ w.tries = 0) =>
          /\ Cardinality(IterationCommits) = Len(w.elements)
          /\ \A e \in Range(w.elements) :
                \E c \in IterationCommits : commits[c].elem = e
    /\ w.pc = "push" => it.pushCalls \in {w.pass - 1, w.pass}
    /\ w.pc = "postpush" => it.pushCalls = w.pass

\* C32 witness: a batch of three elements has been applied again after a
\* reset and is about to be pushed
C32_Witness ==
    /\ w.pc = "push" /\ w.tries = 0 /\ w.pass = 2
    /\ Len(w.elements) = MaxElems

\* the errors ProcessQueueOnce reports for a push that was not recovered
PushErrors == {"public", "cancelled", "protected", "internalPush"}

\* C33: after an iteration whose push failed without recovery the commits
\* made for its elements are not on the local branch, and the remote
\* branch never holds the commit of an element that was answered with an
\* error only.
C33_FailedPushRolledBack ==
    /\ (w.pc = "idle" /\ w.err \in PushErrors) =>
          \A c \in Ancestors(localHead) :
             commits[c].elem \notin Range(w.elements)
    /\ \A e \in Elems :
          (sent[e] # <<>> /\ "nil" \notin Range(sent[e])) =>
             \A c \in Ancestors(remoteHead) : commits[c].elem # e

C34_Step ==
    /\ (wctx /\ w.pc = "idle" /\ w' # w) => w'.pc = "shutdown" /\ closed'
    /\ (w.pc = "shutdown" /\ queue # <<>> /\ w' = w /\ queue' # queue) =>
          sent'[Head(queue)] = <<"ctxErr">>
    /\ (w.pc # "shutdown" /\ w'.pc = "shutdown") => w.pc = "idle"

\* C34: once the context of the writer is cancelled, ProcessQueue takes no
\* new element, closes the queue after the iteration in progress and
\* sends the context error once to every element still queued, so that
\* the writer stops and every element has a result.
C34_Shutdown ==
    /\ [][C34_Step]_vars
    /\ [](w.pc = "stopped" => closed /\ queue = <<>>)
    /\ wctx ~> (w.pc = "stopped" /\ \A e \in Elems : sent[e] # <<>>)

\* C35: a push callback does not outlive the useRemote that started it:
\* the remote branch moves to a commit of this writer only while the
\* writer is in Push, never after Push has returned, and never once the
\* elements were told that the push timed out.
C35_NoLatePush ==
    [][(remoteHead' # remoteHead /\ remoteHead' \in LocalCommits) =>
          /\ w.pc = "push"
          /\ \A e \in Elems : "cancelled" \notin Range(sent[e])]_vars

\* the number of transformers of the Apply calls in S
RECURSIVE Transformers(_)
Transformers(S) ==
    IF S = {} THEN 0
    ELSE LET e == CHOOSE x \in S : TRUE
         IN  Len(ts[e]) + Transformers(S \ {e})

\* the Apply calls whose deferred function has written the counter
Counted == {e \in Elems : deferred[e].pc \in {"check", "reset", "repack", "done"}}

\* C36: no increment of the write counter is lost: where GC never runs
\* the counter is the number of transformers of all calls that have
\* counted; and the callers never start two repacks for one crossing of
\* the threshold (the calls of the model cross it once at most).
C36_NoLostIncrement ==
    /\ ~(\E writes \in 0..(2 * MaxCalls) : GcDue(config, writes)) =>
          writesDone = Transformers(Counted)
    /\ Cardinality({e \in Elems : deferred[e].pc \in {"reset", "repack"}}) <= 1

\* C37: ProcessBatch hands a batch to the cd-service exactly when none of
\* its actions is a create-release, and then hands it on whole; a batch
\* with a create-release at any position gets a public error and nothing
\* of it is forwarded.
C37_CreateReleaseRejected ==
    proxyOut.pc = "done" =>
        IF "CreateRelease" \in Range(proxyIn)
        THEN proxyOut.forwarded = Nil /\ proxyOut.err = "public"
        ELSE proxyOut.forwarded = Ptr(proxyIn) /\ proxyOut.err # "public"

C37_Witness ==
    /\ proxyOut.pc = "done" /\ Len(proxyIn) = MaxActions
    /\ proxyIn[1] # "CreateRelease" /\ proxyIn[MaxActions] = "CreateRelease"
    /\ proxyOut.forwarded = Nil

\* the users runServer accepts as default
DefaultUsers == {d \in Users : d.Email # "" /\ d.Name # ""}

\* C38: with a default user of non-empty name and e-mail, GetUserOrDefault
\* returns a user of non-empty name and e-mail: the default user when the
\* request has no user or one without e-mail, otherwise the request's
\* e-mail with its name, or with the e-mail as name when it has no name;
\* and every request the Auth handler passes on carries a non-empty name
\* and e-mail in its headers, its context and its grpc metadata.
C38_AuthorNeverEmpty ==
    /\ \A d \in DefaultUsers : \A u \in {Nil} \cup {Ptr(x) : x \in Users} :
          LET r == GetUserOrDefault(u, d)
          IN  /\ r.Name # "" /\ r.Email # ""
              /\ (u = Nil \/ u[1].Email = "") => r = d
              /\ (u # Nil /\ u[1].Email # "") =>
                    /\ r.Email = u[1].Email
                    /\ r.Name = IF u[1].Name = "" THEN u[1].Email
                                ELSE u[1].Name
    /\ server.pc = "serving" => server.DefaultUser \in DefaultUsers
    /\ httpOut.pc = "forwarded" =>
          /\ server.pc = "serving"
          /\ httpOut.user[1].Name # "" /\ httpOut.user[1].Email # ""
          /\ Decode64(httpOut.authorName) = [s |-> httpOut.user[1].Name, err |-> "nil"]
          /\ Decode64(httpOut.authorEmail) = [s |-> httpOut.user[1].Email, err |-> "nil"]
          /\ httpOut.md = <<httpOut.authorEmail, httpOut.authorName>>

C38_Witness ==
    /\ httpOut.pc = "forwarded" /\ ~frontendConfig.AzureEnableAuth
    /\ httpIn.iapJWT = "valid" /\ httpIn.email = Ptr("u1@x")
    /\ httpOut.user[1].Name = "u1@x"

\* the latest report of every part in a history of reports
Latest(seen) == [n \in DOMAIN seen |-> seen[n][Len(seen[n])]]

\* C39: ServeHTTP answers 200 exactly when the latest report of every
\* registered part, as of the moment it reads them, is HealthReady, and
\* 500 otherwise; a part is HealthStarting once registered, and neither
\* IsReady nor the server calls it ready before it has reported ready;
\* h.parts holds for each part its most recent report and no other.
C39_HealthOfLatestReports ==
    /\ DOMAIN parts = DOMAIN reported /\ parts = Latest(reported)
    /\ \A n \in DOMAIN reported :
          /\ reported[n][1].Health = HealthStarting
          /\ Len(reported[n]) = 1 => parts[n].Health = HealthStarting
    /\ \A i \in DOMAIN healthReq :
          /\ healthReq[i].reports = Latest(healthReq[i].seen)
          /\ healthReq[i].pc = "done" =>
                /\ healthReq[i].status \in {StatusOK, StatusInternalServerError}
                /\ healthReq[i].status = StatusOK <=>
                      \A n \in DOMAIN healthReq[i].seen :
                          Latest(healthReq[i].seen)[n].Health = HealthReady
                /\ \A n \in DOMAIN healthReq[i].seen :
                      (\A k \in DOMAIN healthReq[i].seen[n] :
                          healthReq[i].seen[n][k].Health # HealthReady)
                      => healthReq[i].status = StatusInternalServerError
    /\ isReady.op = "IsReady" =>
          /\ isReady.result <=>
                /\ isReady.name \in DOMAIN isReady.seen
                /\ Latest(isReady.seen)[isReady.name].Health = HealthReady
          /\ (isReady.name \in DOMAIN isReady.seen
              /\ \A k \in DOMAIN isReady.seen[isReady.name] :
                    isReady.seen[isReady.name][k].Health # HealthReady)
             => ~isReady.result

C39_Witness ==
    /\ Len(healthReq) = 2
    /\ healthReq[1].pc = "done" /\ healthReq[1].status = StatusInternalServerError
    /\ healthReq[2].pc = "done" /\ healthReq[2].status = StatusOK
    /\ DOMAIN healthReq[1].seen = PartNames
    /\ Len(healthReq[2].seen["p1"]) = 2 /\ Len(healthReq[2].seen["p2"]) = 2
    /\ isReady.op = "IsReady" /\ isReady.result

====
